---- MODULE Spec2Model ----
(***************************************************************************)
(* Model of the MBTI chat-safety analyser (shosei0716/mbti-line-bot).      *)
(*                                                                         *)
(* A text is a sequence of UTF-16 code units (numbers), as a JavaScript     *)
(* string is; comments give the characters.  The analysis analyzeLocal,    *)
(* the request/response API handlers and the conversational LINE webhook   *)
(* handler are translated from src/unnamed/part_000 (api/analyze.js),      *)
(* src/unnamed/part_001 (api/webhook.js, newer) and src/api/webhook.js     *)
(* (older webhook handler followed by server.js).                          *)
(***************************************************************************)
EXTENDS Integers, Sequences, FiniteSets, TLC

(***************************************************************************)
(* Bounds of the model.                                                    *)
(***************************************************************************)
\* number of fragments of FRAGMENTS an input text is concatenated from
MaxFrags == 2

\* number of insult phrases a text of insult phrases only is concatenated from
MaxInsults == 3

\* events in one webhook request
MaxBatch == 2

(***************************************************************************)
(* Generic string helpers (JavaScript String methods).                     *)
(***************************************************************************)
Max(a, b) == IF a >= b THEN a ELSE b

Min(a, b) == IF a <= b THEN a ELSE b

\* position of ch in the sequence s (1-based), 0 when absent: s.indexOf(ch) + 1
CharIndex(s, ch) ==
  IF \E i \in 1..Len(s) : s[i] = ch
    THEN CHOOSE i \in 1..Len(s) : s[i] = ch /\ \A j \in 1..(i - 1) : s[j] # ch
    ELSE 0

\* pattern p occurs in t at the 1-based position i
MatchAt(t, p, i) ==
  /\ i >= 1
  /\ i + Len(p) - 1 <= Len(t)
  /\ \A j \in 1..Len(p) : t[i + j - 1] = p[j]

\* String.prototype.includes
Includes(t, p) == \E i \in 1..(Len(t) - Len(p) + 1) : MatchAt(t, p, i)

\* String.prototype.indexOf, 1-based: 0 stands for JavaScript's -1
IndexOf(t, p) ==
  IF Includes(t, p)
    THEN CHOOSE i \in 1..(Len(t) - Len(p) + 1) :
           MatchAt(t, p, i) /\ \A j \in 1..(i - 1) : ~MatchAt(t, p, j)
    ELSE 0

\* String.prototype.slice(from) with a 1-based start
Slice(t, from) == SubSeq(t, from, Len(t))

\* the characters JavaScript's \s and trim() treat as white space, within the
\* alphabet of the model (U+0020, tab, line feed, carriage return, U+3000)
WhiteSpace == {32, 9, 10, 13, 12288}

RECURSIVE TrimStart(_)
TrimStart(t) ==
  IF t # <<>> /\ Head(t) \in WhiteSpace THEN TrimStart(Tail(t)) ELSE t

RECURSIVE TrimEnd(_)
TrimEnd(t) ==
  IF t # <<>> /\ t[Len(t)] \in WhiteSpace
    THEN TrimEnd(SubSeq(t, 1, Len(t) - 1))
    ELSE t

\* String.prototype.trim
Trim(t) == TrimEnd(TrimStart(t))

(***************************************************************************)
(* Dictionaries of api/analyze.js.  Multipliers are kept in tenths         *)
(* (1.5 is 15), so every damage value of the model is in tenths.           *)
(***************************************************************************)
\* PSY_CATEGORIES: id and baseSeverity of the 17 categories, in source order
PSY_CATEGORIES ==
  <<[id |-> "direct_insult", baseSeverity |-> 10],
    [id |-> "ideal_denial", baseSeverity |-> 5],
    [id |-> "command", baseSeverity |-> 4],
    [id |-> "command_soft", baseSeverity |-> 3],
    [id |-> "comparison", baseSeverity |-> 4],
    [id |-> "emotional_dismiss", baseSeverity |-> 5],
    [id |-> "identity_attack", baseSeverity |-> 5],
    [id |-> "conformity", baseSeverity |-> 4],
    [id |-> "capability_deny", baseSeverity |-> 4],
    [id |-> "freedom_restrict", baseSeverity |-> 3],
    [id |-> "goodwill_reject", baseSeverity |-> 5],
    [id |-> "privacy_invade", baseSeverity |-> 3],
    [id |-> "past_blame", baseSeverity |-> 3],
    [id |-> "vague_criticism", baseSeverity |-> 3],
    [id |-> "generalization", baseSeverity |-> 2],
    [id |-> "interrogation_pressure", baseSeverity |-> 5],
    [id |-> "passive_aggressive", baseSeverity |-> 4]>>

\* MBTI_MULTIPLIERS, keyed by the code as a text; 12 stands for 1.2
MBTI_MULTIPLIERS ==
  <<73, 78, 84, 74>> :>   \* INTJ
      [ideal_denial |-> 12, command |-> 10, command_soft |-> 8, comparison |-> 10,
       emotional_dismiss |-> 6, identity_attack |-> 12, conformity |-> 20, capability_deny |-> 15,
       freedom_restrict |-> 15, goodwill_reject |-> 6, privacy_invade |-> 10, past_blame |-> 8,
       vague_criticism |-> 12, generalization |-> 10, interrogation_pressure |-> 8, passive_aggressive |-> 8]
  @@ <<73, 78, 84, 80>> :>   \* INTP
      [ideal_denial |-> 15, command |-> 12, command_soft |-> 10, comparison |-> 8,
       emotional_dismiss |-> 5, identity_attack |-> 10, conformity |-> 20, capability_deny |-> 12,
       freedom_restrict |-> 15, goodwill_reject |-> 5, privacy_invade |-> 12, past_blame |-> 8,
       vague_criticism |-> 18, generalization |-> 15, interrogation_pressure |-> 8, passive_aggressive |-> 8]
  @@ <<69, 78, 84, 74>> :>   \* ENTJ
      [ideal_denial |-> 10, command |-> 8, command_soft |-> 5, comparison |-> 12,
       emotional_dismiss |-> 5, identity_attack |-> 12, conformity |-> 10, capability_deny |-> 20,
       freedom_restrict |-> 12, goodwill_reject |-> 6, privacy_invade |-> 8, past_blame |-> 10,
       vague_criticism |-> 10, generalization |-> 8, interrogation_pressure |-> 6, passive_aggressive |-> 6]
  @@ <<69, 78, 84, 80>> :>   \* ENTP
      [ideal_denial |-> 12, command |-> 15, command_soft |-> 8, comparison |-> 8,
       emotional_dismiss |-> 5, identity_attack |-> 10, conformity |-> 20, capability_deny |-> 10,
       freedom_restrict |-> 18, goodwill_reject |-> 5, privacy_invade |-> 8, past_blame |-> 8,
       vague_criticism |-> 15, generalization |-> 12, interrogation_pressure |-> 6, passive_aggressive |-> 8]
  @@ <<73, 78, 70, 74>> :>   \* INFJ
      [ideal_denial |-> 15, command |-> 12, command_soft |-> 12, comparison |-> 12,
       emotional_dismiss |-> 20, identity_attack |-> 18, conformity |-> 10, capability_deny |-> 10,
       freedom_restrict |-> 10, goodwill_reject |-> 12, privacy_invade |-> 18, past_blame |-> 12,
       vague_criticism |-> 10, generalization |-> 12, interrogation_pressure |-> 15, passive_aggressive |-> 15]
  @@ <<73, 78, 70, 80>> :>   \* INFP
      [ideal_denial |-> 20, command |-> 15, command_soft |-> 15, comparison |-> 15,
       emotional_dismiss |-> 20, identity_attack |-> 18, conformity |-> 12, capability_deny |-> 10,
       freedom_restrict |-> 12, goodwill_reject |-> 10, privacy_invade |-> 12, past_blame |-> 15,
       vague_criticism |-> 12, generalization |-> 10, interrogation_pressure |-> 15, passive_aggressive |-> 18]
  @@ <<69, 78, 70, 74>> :>   \* ENFJ
      [ideal_denial |-> 12, command |-> 10, command_soft |-> 10, comparison |-> 12,
       emotional_dismiss |-> 15, identity_attack |-> 15, conformity |-> 8, capability_deny |-> 10,
       freedom_restrict |-> 8, goodwill_reject |-> 20, privacy_invade |-> 10, past_blame |-> 10,
       vague_criticism |-> 10, generalization |-> 10, interrogation_pressure |-> 12, passive_aggressive |-> 12]
  @@ <<69, 78, 70, 80>> :>   \* ENFP
      [ideal_denial |-> 18, command |-> 15, command_soft |-> 12, comparison |-> 12,
       emotional_dismiss |-> 15, identity_attack |-> 12, conformity |-> 15, capability_deny |-> 10,
       freedom_restrict |-> 18, goodwill_reject |-> 8, privacy_invade |-> 8, past_blame |-> 15,
       vague_criticism |-> 10, generalization |-> 10, interrogation_pressure |-> 10, passive_aggressive |-> 12]
  @@ <<73, 83, 84, 74>> :>   \* ISTJ
      [ideal_denial |-> 15, command |-> 6, command_soft |-> 5, comparison |-> 10,
       emotional_dismiss |-> 5, identity_attack |-> 12, conformity |-> 6, capability_deny |-> 15,
       freedom_restrict |-> 8, goodwill_reject |-> 8, privacy_invade |-> 12, past_blame |-> 10,
       vague_criticism |-> 15, generalization |-> 12, interrogation_pressure |-> 8, passive_aggressive |-> 6]
  @@ <<73, 83, 70, 74>> :>   \* ISFJ
      [ideal_denial |-> 12, command |-> 12, command_soft |-> 12, comparison |-> 15,
       emotional_dismiss |-> 15, identity_attack |-> 18, conformity |-> 8, capability_deny |-> 10,
       freedom_restrict |-> 8, goodwill_reject |-> 20, privacy_invade |-> 15, past_blame |-> 12,
       vague_criticism |-> 12, generalization |-> 10, interrogation_pressure |-> 15, passive_aggressive |-> 15]
  @@ <<69, 83, 84, 74>> :>   \* ESTJ
      [ideal_denial |-> 10, command |-> 5, command_soft |-> 5, comparison |-> 12,
       emotional_dismiss |-> 5, identity_attack |-> 15, conformity |-> 5, capability_deny |-> 18,
       freedom_restrict |-> 6, goodwill_reject |-> 8, privacy_invade |-> 8, past_blame |-> 10,
       vague_criticism |-> 12, generalization |-> 8, interrogation_pressure |-> 5, passive_aggressive |-> 5]
  @@ <<69, 83, 70, 74>> :>   \* ESFJ
      [ideal_denial |-> 10, command |-> 10, command_soft |-> 10, comparison |-> 15,
       emotional_dismiss |-> 15, identity_attack |-> 20, conformity |-> 6, capability_deny |-> 10,
       freedom_restrict |-> 8, goodwill_reject |-> 18, privacy_invade |-> 12, past_blame |-> 12,
       vague_criticism |-> 10, generalization |-> 10, interrogation_pressure |-> 12, passive_aggressive |-> 12]
  @@ <<73, 83, 84, 80>> :>   \* ISTP
      [ideal_denial |-> 8, command |-> 15, command_soft |-> 10, comparison |-> 8,
       emotional_dismiss |-> 5, identity_attack |-> 10, conformity |-> 15, capability_deny |-> 12,
       freedom_restrict |-> 20, goodwill_reject |-> 5, privacy_invade |-> 15, past_blame |-> 8,
       vague_criticism |-> 12, generalization |-> 10, interrogation_pressure |-> 8, passive_aggressive |-> 6]
  @@ <<73, 83, 70, 80>> :>   \* ISFP
      [ideal_denial |-> 15, command |-> 15, command_soft |-> 12, comparison |-> 15,
       emotional_dismiss |-> 18, identity_attack |-> 15, conformity |-> 12, capability_deny |-> 10,
       freedom_restrict |-> 15, goodwill_reject |-> 8, privacy_invade |-> 15, past_blame |-> 12,
       vague_criticism |-> 15, generalization |-> 10, interrogation_pressure |-> 15, passive_aggressive |-> 15]
  @@ <<69, 83, 84, 80>> :>   \* ESTP
      [ideal_denial |-> 8, command |-> 12, command_soft |-> 6, comparison |-> 10,
       emotional_dismiss |-> 5, identity_attack |-> 12, conformity |-> 12, capability_deny |-> 10,
       freedom_restrict |-> 18, goodwill_reject |-> 5, privacy_invade |-> 10, past_blame |-> 18,
       vague_criticism |-> 8, generalization |-> 10, interrogation_pressure |-> 6, passive_aggressive |-> 5]
  @@ <<69, 83, 70, 80>> :>   \* ESFP
      [ideal_denial |-> 10, command |-> 12, command_soft |-> 10, comparison |-> 15,
       emotional_dismiss |-> 15, identity_attack |-> 20, conformity |-> 10, capability_deny |-> 8,
       freedom_restrict |-> 15, goodwill_reject |-> 8, privacy_invade |-> 8, past_blame |-> 12,
       vague_criticism |-> 10, generalization |-> 10, interrogation_pressure |-> 10, passive_aggressive |-> 10]

\* CATEGORY_PATTERNS in Object.entries order: per category its entries;
\* reason names the source line of the entry, whose reason string it stands for
CATEGORY_PATTERNS ==
  <<[category |-> "ideal_denial",
     entries |-> <<
       \* 現実を見 現実見 現実的に 地に足つけ 目を覚ませ
       [reason |-> "part_000:172",
        patterns |-> <<<<29694, 23455, 12434, 35211>>,
                       <<29694, 23455, 35211>>,
                       <<29694, 23455, 30340, 12395>>,
                       <<22320, 12395, 36275, 12388, 12369>>,
                       <<30446, 12434, 35226, 12414, 12379>>>>],
       \* 理想論 きれいごと 絵空事 夢ばかり 夢物語 机上の空論
       [reason |-> "part_000:173",
        patterns |-> <<<<29702, 24819, 35542>>,
                       <<12365, 12428, 12356, 12372, 12392>>,
                       <<32117, 31354, 20107>>,
                       <<22818, 12400, 12363, 12426>>,
                       <<22818, 29289, 35486>>,
                       <<26426, 19978, 12398, 31354, 35542>>>>],
       \* 甘い 甘えてる 甘すぎ 世間知らず
       [reason |-> "part_000:174",
        patterns |-> <<<<29976, 12356>>,
                       <<29976, 12360, 12390, 12427>>,
                       <<29976, 12377, 12366>>,
                       <<19990, 38291, 30693, 12425, 12378>>>>],
       \* ダメ ダメだ ダメでしょ
       [reason |-> "part_000:175",
        patterns |-> <<<<12480, 12513>>,
                       <<12480, 12513, 12384>>,
                       <<12480, 12513, 12391, 12375, 12423>>>>],
       \* 意味ある 役に立つの 何の得が 無駄じゃない
       [reason |-> "part_000:176",
        patterns |-> <<<<24847, 21619, 12354, 12427>>,
                       <<24441, 12395, 31435, 12388, 12398>>,
                       <<20309, 12398, 24471, 12364>>,
                       <<28961, 39364, 12376, 12419, 12394, 12356>>>>],
       \* ルール通りじゃなくても ルールなんて 規則は破る
       [reason |-> "part_000:177",
        patterns |-> <<<<12523, 12540, 12523, 36890, 12426, 12376, 12419, 12394, 12367, 12390, 12418>>,
                       <<12523, 12540, 12523, 12394, 12435, 12390>>,
                       <<35215, 21063, 12399, 30772, 12427>>>>],
       \* 自分のこと先に 人の心配より 自分を優先しろ
       [reason |-> "part_000:178",
        patterns |-> <<<<33258, 20998, 12398, 12371, 12392, 20808, 12395>>,
                       <<20154, 12398, 24515, 37197, 12424, 12426>>,
                       <<33258, 20998, 12434, 20778, 20808, 12375, 12429>>>>],
       \* 夢見すぎ 妄想 現実離れ
       [reason |-> "part_000:179",
        patterns |-> <<<<22818, 35211, 12377, 12366>>,
                       <<22916, 24819>>,
                       <<29694, 23455, 38626, 12428>>>>],
       \* 将来のこと考えてる 先のこと 将来どうする 老後
       [reason |-> "part_000:180",
        patterns |-> <<<<23558, 26469, 12398, 12371, 12392, 32771, 12360, 12390, 12427>>,
                       <<20808, 12398, 12371, 12392>>,
                       <<23558, 26469, 12393, 12358, 12377, 12427>>,
                       <<32769, 24460>>>>],
       \* 食べていける 稼げるの お金になる 生活できる
       [reason |-> "part_000:181",
        patterns |-> <<<<39135, 12409, 12390, 12356, 12369, 12427>>,
                       <<31292, 12370, 12427, 12398>>,
                       <<12362, 37329, 12395, 12394, 12427>>,
                       <<29983, 27963, 12391, 12365, 12427>>>>],
       \* 現実的じゃない
       [reason |-> "part_000:182",
        patterns |-> <<<<29694, 23455, 30340, 12376, 12419, 12394, 12356>>>>]>>],
    [category |-> "command",
     entries |-> <<
       \* 感情出して 気持ちを言って もっと笑って
       [reason |-> "part_000:185",
        patterns |-> <<<<24863, 24773, 20986, 12375, 12390>>,
                       <<27671, 25345, 12385, 12434, 35328, 12387, 12390>>,
                       <<12418, 12387, 12392, 31505, 12387, 12390>>>>],
       \* 早く決めて さっさと決め いつまで迷って
       [reason |-> "part_000:186",
        patterns |-> <<<<26089, 12367, 27770, 12417, 12390>>,
                       <<12373, 12387, 12373, 12392, 27770, 12417>>,
                       <<12356, 12388, 12414, 12391, 36855, 12387, 12390>>>>],
       \* 落ち着き 落ち着け 落ち着いて 静かにして
       [reason |-> "part_000:187",
        patterns |-> <<<<33853, 12385, 30528, 12365>>,
                       <<33853, 12385, 30528, 12369>>,
                       <<33853, 12385, 30528, 12356, 12390>>,
                       <<38745, 12363, 12395, 12375, 12390>>>>],
       \* 断ればいい NOと言え 嫌なら断れ
       [reason |-> "part_000:188",
        patterns |-> <<<<26029, 12428, 12400, 12356, 12356>>,
                       <<78, 79, 12392, 35328, 12360>>,
                       <<23244, 12394, 12425, 26029, 12428>>>>],
       \* はっきり言って はっきりして どっちなの
       [reason |-> "part_000:189",
        patterns |-> <<<<12399, 12387, 12365, 12426, 35328, 12387, 12390>>,
                       <<12399, 12387, 12365, 12426, 12375, 12390>>,
                       <<12393, 12387, 12385, 12394, 12398>>>>],
       \* 落ち着い 冷静に もっとゆっくり
       [reason |-> "part_000:190",
        patterns |-> <<<<33853, 12385, 30528, 12356>>,
                       <<20919, 38745, 12395>>,
                       <<12418, 12387, 12392, 12422, 12387, 12367, 12426>>>>],
       \* 真面目にやって 真剣にやれ 遊びじゃない ふざけてないで
       [reason |-> "part_000:191",
        patterns |-> <<<<30495, 38754, 30446, 12395, 12420, 12387, 12390>>,
                       <<30495, 21091, 12395, 12420, 12428>>,
                       <<36938, 12403, 12376, 12419, 12394, 12356>>,
                       <<12405, 12374, 12369, 12390, 12394, 12356, 12391>>>>]>>],
    [category |-> "command_soft",
     entries |-> <<
       \* 頑張れよ 頑張れば 頑張りなよ もっと頑張
       [reason |-> "part_000:194",
        patterns |-> <<<<38929, 24373, 12428, 12424>>,
                       <<38929, 24373, 12428, 12400>>,
                       <<38929, 24373, 12426, 12394, 12424>>,
                       <<12418, 12387, 12392, 38929, 24373>>>>],
       \* ちゃんとやれ ちゃんとしろ ちゃんとして
       [reason |-> "part_000:195",
        patterns |-> <<<<12385, 12419, 12435, 12392, 12420, 12428>>,
                       <<12385, 12419, 12435, 12392, 12375, 12429>>,
                       <<12385, 12419, 12435, 12392, 12375, 12390>>>>],
       \* しろよ やれよ しなよ やりなよ
       [reason |-> "part_000:196",
        patterns |-> <<<<12375, 12429, 12424>>,
                       <<12420, 12428, 12424>>,
                       <<12375, 12394, 12424>>,
                       <<12420, 12426, 12394, 12424>>>>]>>],
    [category |-> "comparison",
     entries |-> <<
       \* リーダーぶる 仕切りたがり 目立ちたがり
       [reason |-> "part_000:199",
        patterns |-> <<<<12522, 12540, 12480, 12540, 12406, 12427>>,
                       <<20181, 20999, 12426, 12383, 12364, 12426>>,
                       <<30446, 31435, 12385, 12383, 12364, 12426>>>>],
       \* 優しく言えない 言い方きつい キツイ 怖い
       [reason |-> "part_000:200",
        patterns |-> <<<<20778, 12375, 12367, 35328, 12360, 12394, 12356>>,
                       <<35328, 12356, 26041, 12365, 12388, 12356>>,
                       <<12461, 12484, 12452>>,
                       <<24598, 12356>>>>],
       \* 人の目気にし 周り気にし 人目を 顔色うかがい
       [reason |-> "part_000:201",
        patterns |-> <<<<20154, 12398, 30446, 27671, 12395, 12375>>,
                       <<21608, 12426, 27671, 12395, 12375>>,
                       <<20154, 30446, 12434>>,
                       <<38996, 33394, 12358, 12363, 12364, 12356>>>>]>>],
    [category |-> "emotional_dismiss",
     entries |-> <<
       \* 気にしすぎ 気にするな 気にしないで 気にしなくていい
       [reason |-> "part_000:204",
        patterns |-> <<<<27671, 12395, 12375, 12377, 12366>>,
                       <<27671, 12395, 12377, 12427, 12394>>,
                       <<27671, 12395, 12375, 12394, 12356, 12391>>,
                       <<27671, 12395, 12375, 12394, 12367, 12390, 12356, 12356>>>>],
       \* 考えすぎ 考え過ぎ 深読みしすぎ
       [reason |-> "part_000:205",
        patterns |-> <<<<32771, 12360, 12377, 12366>>,
                       <<32771, 12360, 36942, 12366>>,
                       <<28145, 35501, 12415, 12375, 12377, 12366>>>>],
       \* 泣いても 泣くな 泣いたって めそめそ
       [reason |-> "part_000:206",
        patterns |-> <<<<27875, 12356, 12390, 12418>>,
                       <<27875, 12367, 12394>>,
                       <<27875, 12356, 12383, 12387, 12390>>,
                       <<12417, 12381, 12417, 12381>>>>],
       \* 結論は 結局何 要するに で、何が言いたい
       [reason |-> "part_000:207",
        patterns |-> <<<<32080, 35542, 12399>>,
                       <<32080, 23616, 20309>>,
                       <<35201, 12377, 12427, 12395>>,
                       <<12391, 12289, 20309, 12364, 35328, 12356, 12383, 12356>>>>],
       \* でもさ、 でも、 だけど、 だけどさ、 しかし、
       [reason |-> "part_000:208",
        patterns |-> <<<<12391, 12418, 12373, 12289>>,
                       <<12391, 12418, 12289>>,
                       <<12384, 12369, 12393, 12289>>,
                       <<12384, 12369, 12393, 12373, 12289>>,
                       <<12375, 12363, 12375, 12289>>>>],
       \* 大げさ 大げさすぎ オーバー オーバーすぎ
       [reason |-> "part_000:209",
        patterns |-> <<<<22823, 12370, 12373>>,
                       <<22823, 12370, 12373, 12377, 12366>>,
                       <<12458, 12540, 12496, 12540>>,
                       <<12458, 12540, 12496, 12540, 12377, 12366>>>>],
       \* それくらいで そのくらいで たかが たかだか
       [reason |-> "part_000:210",
        patterns |-> <<<<12381, 12428, 12367, 12425, 12356, 12391>>,
                       <<12381, 12398, 12367, 12425, 12356, 12391>>,
                       <<12383, 12363, 12364>>,
                       <<12383, 12363, 12384, 12363>>>>],
       \* 落ち込むな 凹むな へこむな くよくよするな
       [reason |-> "part_000:211",
        patterns |-> <<<<33853, 12385, 36796, 12416, 12394>>,
                       <<20985, 12416, 12394>>,
                       <<12408, 12371, 12416, 12394>>,
                       <<12367, 12424, 12367, 12424, 12377, 12427, 12394>>>>]>>],
    [category |-> "identity_attack",
     entries |-> <<
       \* 理屈っぽい 理屈ばかり 理屈じゃない
       [reason |-> "part_000:214",
        patterns |-> <<<<29702, 23624, 12387, 12413, 12356>>,
                       <<29702, 23624, 12400, 12363, 12426>>,
                       <<29702, 23624, 12376, 12419, 12394, 12356>>>>],
       \* 冷たい 冷たすぎ 薄情 ドライ
       [reason |-> "part_000:215",
        patterns |-> <<<<20919, 12383, 12356>>,
                       <<20919, 12383, 12377, 12366>>,
                       <<34180, 24773>>,
                       <<12489, 12521, 12452>>>>],
       \* 繊細すぎ 敏感すぎ 打たれ弱い メンタル弱い
       [reason |-> "part_000:216",
        patterns |-> <<<<32330, 32048, 12377, 12366>>,
                       <<25935, 24863, 12377, 12366>>,
                       <<25171, 12383, 12428, 24369, 12356>>,
                       <<12513, 12531, 12479, 12523, 24369, 12356>>>>],
       \* 仕切らないで 仕切りすぎ 出しゃばり でしゃばる
       [reason |-> "part_000:217",
        patterns |-> <<<<20181, 20999, 12425, 12394, 12356, 12391>>,
                       <<20181, 20999, 12426, 12377, 12366>>,
                       <<20986, 12375, 12419, 12400, 12426>>,
                       <<12391, 12375, 12419, 12400, 12427>>>>],
       \* 謙虚に 偉そう 上から目線 傲慢 何様 威張る
       [reason |-> "part_000:218",
        patterns |-> <<<<35609, 34394, 12395>>,
                       <<20553, 12381, 12358>>,
                       <<19978, 12363, 12425, 30446, 32218>>,
                       <<20658, 24930>>,
                       <<20309, 27096>>,
                       <<23041, 24373, 12427>>>>],
       \* 屁理屈 理屈ばっかり ごちゃごちゃ言う ああ言えばこう言う
       [reason |-> "part_000:219",
        patterns |-> <<<<23617, 29702, 23624>>,
                       <<29702, 23624, 12400, 12387, 12363, 12426>>,
                       <<12372, 12385, 12419, 12372, 12385, 12419, 35328, 12358>>,
                       <<12354, 12354, 35328, 12360, 12400, 12371, 12358, 35328, 12358>>>>],
       \* 偽善 いい人ぶって ぶりっ子 白々しい
       [reason |-> "part_000:220",
        patterns |-> <<<<20605, 21892>>,
                       <<12356, 12356, 20154, 12406, 12387, 12390>>,
                       <<12406, 12426, 12387, 23376>>,
                       <<30333, 12293, 12375, 12356>>>>],
       \* テンション高 うるさい 騒がしい はしゃぎすぎ
       [reason |-> "part_000:221",
        patterns |-> <<<<12486, 12531, 12471, 12519, 12531, 39640>>,
                       <<12358, 12427, 12373, 12356>>,
                       <<39442, 12364, 12375, 12356>>,
                       <<12399, 12375, 12419, 12366, 12377, 12366>>>>],
       \* 融通きかない 融通がきかない 頭が固い 石頭
       [reason |-> "part_000:222",
        patterns |-> <<<<34701, 36890, 12365, 12363, 12394, 12356>>,
                       <<34701, 36890, 12364, 12365, 12363, 12394, 12356>>,
                       <<38957, 12364, 22266, 12356>>,
                       <<30707, 38957>>>>],
       \* 堅すぎ 真面目すぎ 堅物 カタブツ
       [reason |-> "part_000:223",
        patterns |-> <<<<22533, 12377, 12366>>,
                       <<30495, 38754, 30446, 12377, 12366>>,
                       <<22533, 29289>>,
                       <<12459, 12479, 12502, 12484>>>>],
       \* 自分の意見ないの 意見がない 主体性がない 言いなり
       [reason |-> "part_000:224",
        patterns |-> <<<<33258, 20998, 12398, 24847, 35211, 12394, 12356, 12398>>,
                       <<24847, 35211, 12364, 12394, 12356>>,
                       <<20027, 20307, 24615, 12364, 12394, 12356>>,
                       <<35328, 12356, 12394, 12426>>>>],
       \* 都合よく使われ 利用されてる いいように使われ
       [reason |-> "part_000:225",
        patterns |-> <<<<37117, 21512, 12424, 12367, 20351, 12431, 12428>>,
                       <<21033, 29992, 12373, 12428, 12390, 12427>>,
                       <<12356, 12356, 12424, 12358, 12395, 20351, 12431, 12428>>>>],
       \* 押し付け 強制するな 押しつけがましい
       [reason |-> "part_000:226",
        patterns |-> <<<<25276, 12375, 20184, 12369>>,
                       <<24375, 21046, 12377, 12427, 12394>>,
                       <<25276, 12375, 12388, 12369, 12364, 12414, 12375, 12356>>>>],
       \* 八方美人 いい顔しすぎ 誰にでもいい顔
       [reason |-> "part_000:227",
        patterns |-> <<<<20843, 26041, 32654, 20154>>,
                       <<12356, 12356, 38996, 12375, 12377, 12366>>,
                       <<35504, 12395, 12391, 12418, 12356, 12356, 38996>>>>],
       \* 嫌われたくない 好かれたい 人気取り 媚び
       [reason |-> "part_000:228",
        patterns |-> <<<<23244, 12431, 12428, 12383, 12367, 12394, 12356>>,
                       <<22909, 12363, 12428, 12383, 12356>>,
                       <<20154, 27671, 21462, 12426>>,
                       <<23194, 12403>>>>],
       \* 自分がない 個性がない 没個性 流される
       [reason |-> "part_000:229",
        patterns |-> <<<<33258, 20998, 12364, 12394, 12356>>,
                       <<20491, 24615, 12364, 12394, 12356>>,
                       <<27809, 20491, 24615>>,
                       <<27969, 12373, 12428, 12427>>>>],
       \* 優柔不断 決められない 迷いすぎ 煮え切らない
       [reason |-> "part_000:230",
        patterns |-> <<<<20778, 26580, 19981, 26029>>,
                       <<27770, 12417, 12425, 12428, 12394, 12356>>,
                       <<36855, 12356, 12377, 12366>>,
                       <<29038, 12360, 20999, 12425, 12394, 12356>>>>],
       \* 雑すぎ 雑だね いい加減 適当すぎ
       [reason |-> "part_000:231",
        patterns |-> <<<<38609, 12377, 12366>>,
                       <<38609, 12384, 12397>>,
                       <<12356, 12356, 21152, 28187>>,
                       <<36969, 24403, 12377, 12366>>>>],
       \* 空気読めてない KY 場違い 浮いてる
       [reason |-> "part_000:232",
        patterns |-> <<<<31354, 27671, 35501, 12417, 12390, 12394, 12356>>,
                       <<75, 89>>,
                       <<22580, 36949, 12356>>,
                       <<28014, 12356, 12390, 12427>>>>],
       \* チャラい 軽い 軽薄 薄っぺらい
       [reason |-> "part_000:233",
        patterns |-> <<<<12481, 12515, 12521, 12356>>,
                       <<36605, 12356>>,
                       <<36605, 34180>>,
                       <<34180, 12387, 12410, 12425, 12356>>>>],
       \* 深みがない 中身がない 浅い
       [reason |-> "part_000:234",
        patterns |-> <<<<28145, 12415, 12364, 12394, 12356>>,
                       <<20013, 36523, 12364, 12394, 12356>>,
                       <<27973, 12356>>>>]>>],
    [category |-> "conformity",
     entries |-> <<
       \* 周りに合わせ 合わせたら 合わせろ 合わせなよ
       [reason |-> "part_000:237",
        patterns |-> <<<<21608, 12426, 12395, 21512, 12431, 12379>>,
                       <<21512, 12431, 12379, 12383, 12425>>,
                       <<21512, 12431, 12379, 12429>>,
                       <<21512, 12431, 12379, 12394, 12424>>>>],
       \* みんなそうしてる 普通はこう 常識的に 一般的には
       [reason |-> "part_000:238",
        patterns |-> <<<<12415, 12435, 12394, 12381, 12358, 12375, 12390, 12427>>,
                       <<26222, 36890, 12399, 12371, 12358>>,
                       <<24120, 35672, 30340, 12395>>,
                       <<19968, 33324, 30340, 12395, 12399>>>>],
       \* 空気読 場の雰囲気 空気を
       [reason |-> "part_000:239",
        patterns |-> <<<<31354, 27671, 35501>>,
                       <<22580, 12398, 38640, 22258, 27671>>,
                       <<31354, 27671, 12434>>>>],
       \* 協調性ない チームワーク みんなと一緒に 一人で勝手に
       [reason |-> "part_000:240",
        patterns |-> <<<<21332, 35519, 24615, 12394, 12356>>,
                       <<12481, 12540, 12512, 12527, 12540, 12463>>,
                       <<12415, 12435, 12394, 12392, 19968, 32210, 12395>>,
                       <<19968, 20154, 12391, 21213, 25163, 12395>>>>],
       \* 普通は 普通さ 当然でしょ 当然だろ
       [reason |-> "part_000:241",
        patterns |-> <<<<26222, 36890, 12399>>,
                       <<26222, 36890, 12373>>,
                       <<24403, 28982, 12391, 12375, 12423>>,
                       <<24403, 28982, 12384, 12429>>>>]>>],
    [category |-> "capability_deny",
     entries |-> <<
       \* 任せるのは不安 任せられない 心配だから
       [reason |-> "part_000:244",
        patterns |-> <<<<20219, 12379, 12427, 12398, 12399, 19981, 23433>>,
                       <<20219, 12379, 12425, 12428, 12394, 12356>>,
                       <<24515, 37197, 12384, 12363, 12425>>>>],
       \* 無理だと思う できないよ 不可能 どうせ無理
       [reason |-> "part_000:245",
        patterns |-> <<<<28961, 29702, 12384, 12392, 24605, 12358>>,
                       <<12391, 12365, 12394, 12356, 12424>>,
                       <<19981, 21487, 33021>>,
                       <<12393, 12358, 12379, 28961, 29702>>>>],
       \* やり方が全てじゃない 他にもやり方 古い
       [reason |-> "part_000:246",
        patterns |-> <<<<12420, 12426, 26041, 12364, 20840, 12390, 12376, 12419, 12394, 12356>>,
                       <<20182, 12395, 12418, 12420, 12426, 26041>>,
                       <<21476, 12356>>>>]>>],
    [category |-> "freedom_restrict",
     entries |-> <<
       \* 計画的に 計画を立てて 行き当たりばったり 無計画
       [reason |-> "part_000:249",
        patterns |-> <<<<35336, 30011, 30340, 12395>>,
                       <<35336, 30011, 12434, 31435, 12390, 12390>>,
                       <<34892, 12365, 24403, 12383, 12426, 12400, 12387, 12383, 12426>>,
                       <<28961, 35336, 30011>>>>],
       \* 柔軟に もっと柔軟 臨機応変に 適当でいい
       [reason |-> "part_000:250",
        patterns |-> <<<<26580, 36575, 12395>>,
                       <<12418, 12387, 12392, 26580, 36575>>,
                       <<33256, 27231, 24540, 22793, 12395>>,
                       <<36969, 24403, 12391, 12356, 12356>>>>],
       \* 報連相 報告して 連絡して 逐一報告
       [reason |-> "part_000:251",
        patterns |-> <<<<22577, 36899, 30456>>,
                       <<22577, 21578, 12375, 12390>>,
                       <<36899, 32097, 12375, 12390>>,
                       <<36880, 19968, 22577, 21578>>>>],
       \* 後先考え 先のこと考えて リスク考えろ
       [reason |-> "part_000:252",
        patterns |-> <<<<24460, 20808, 32771, 12360>>,
                       <<20808, 12398, 12371, 12392, 32771, 12360, 12390>>,
                       <<12522, 12473, 12463, 32771, 12360, 12429>>>>],
       \* ふざけ ふざけるな ふざけすぎ 悪ふざけ
       [reason |-> "part_000:253",
        patterns |-> <<<<12405, 12374, 12369>>,
                       <<12405, 12374, 12369, 12427, 12394>>,
                       <<12405, 12374, 12369, 12377, 12366>>,
                       <<24746, 12405, 12374, 12369>>>>]>>],
    [category |-> "goodwill_reject",
     entries |-> <<
       \* お節介 おせっかい 余計なお世話 頼んでない
       [reason |-> "part_000:256",
        patterns |-> <<<<12362, 31680, 20171>>,
                       <<12362, 12379, 12387, 12363, 12356>>,
                       <<20313, 35336, 12394, 12362, 19990, 35441>>,
                       <<38972, 12435, 12391, 12394, 12356>>>>],
       \* 気を遣わなくて 気遣い不要 余計な心配
       [reason |-> "part_000:257",
        patterns |-> <<<<27671, 12434, 36963, 12431, 12394, 12367, 12390>>,
                       <<27671, 36963, 12356, 19981, 35201>>,
                       <<20313, 35336, 12394, 24515, 37197>>>>]>>],
    [category |-> "privacy_invade",
     entries |-> <<
       \* 本音を言 本心は 隠さないで 正直に言って
       [reason |-> "part_000:260",
        patterns |-> <<<<26412, 38899, 12434, 35328>>,
                       <<26412, 24515, 12399>>,
                       <<38560, 12373, 12394, 12356, 12391>>,
                       <<27491, 30452, 12395, 35328, 12387, 12390>>>>]>>],
    [category |-> "past_blame",
     entries |-> <<
       \* 飽きっぽい 三日坊主 続かない すぐ投げ出す
       [reason |-> "part_000:263",
        patterns |-> <<<<39165, 12365, 12387, 12413, 12356>>,
                       <<19977, 26085, 22346, 20027>>,
                       <<32154, 12363, 12394, 12356>>,
                       <<12377, 12368, 25237, 12370, 20986, 12377>>>>],
       \* 途中でやめる どうせまた また飽きる
       [reason |-> "part_000:264",
        patterns |-> <<<<36884, 20013, 12391, 12420, 12417, 12427>>,
                       <<12393, 12358, 12379, 12414, 12383>>,
                       <<12414, 12383, 39165, 12365, 12427>>>>],
       \* 反省してる 反省しろ 反省しな 懲りない
       [reason |-> "part_000:265",
        patterns |-> <<<<21453, 30465, 12375, 12390, 12427>>,
                       <<21453, 30465, 12375, 12429>>,
                       <<21453, 30465, 12375, 12394>>,
                       <<25074, 12426, 12394, 12356>>>>]>>],
    [category |-> "vague_criticism",
     entries |-> <<
       \* ちゃんとして しっかりして だらしない しっかりしな ちゃんとしな もっとしっかり
       [reason |-> "part_000:268",
        patterns |-> <<<<12385, 12419, 12435, 12392, 12375, 12390>>,
                       <<12375, 12387, 12363, 12426, 12375, 12390>>,
                       <<12384, 12425, 12375, 12394, 12356>>,
                       <<12375, 12387, 12363, 12426, 12375, 12394>>,
                       <<12385, 12419, 12435, 12392, 12375, 12394>>,
                       <<12418, 12387, 12392, 12375, 12387, 12363, 12426>>>>],
       \* 曖昧
       [reason |-> "part_000:269",
        patterns |-> <<<<26326, 26151>>>>]>>],
    [category |-> "generalization",
     entries |-> <<
       \* いつも 毎回 いっつも
       [reason |-> "part_000:272",
        patterns |-> <<<<12356, 12388, 12418>>,
                       <<27598, 22238>>,
                       <<12356, 12387, 12388, 12418>>>>],
       \* 絶対 絶対に 必ず
       [reason |-> "part_000:273",
        patterns |-> <<<<32118, 23550>>,
                       <<32118, 23550, 12395>>,
                       <<24517, 12378>>>>]>>],
    [category |-> "interrogation_pressure",
     entries |-> <<
       \* なんで？ なんでできない なぜできない ナンデ どうしてできない
       [reason |-> "part_000:276",
        patterns |-> <<<<12394, 12435, 12391, 65311>>,
                       <<12394, 12435, 12391, 12391, 12365, 12394, 12356>>,
                       <<12394, 12380, 12391, 12365, 12394, 12356>>,
                       <<12490, 12531, 12487>>,
                       <<12393, 12358, 12375, 12390, 12391, 12365, 12394, 12356>>>>],
       \* 何回言わせる 何度言えば 何回言ったら
       [reason |-> "part_000:277",
        patterns |-> <<<<20309, 22238, 35328, 12431, 12379, 12427>>,
                       <<20309, 24230, 35328, 12360, 12400>>,
                       <<20309, 22238, 35328, 12387, 12383, 12425>>>>],
       \* どうして毎回 いつになったら
       [reason |-> "part_000:278",
        patterns |-> <<<<12393, 12358, 12375, 12390, 27598, 22238>>,
                       <<12356, 12388, 12395, 12394, 12387, 12383, 12425>>>>]>>],
    [category |-> "passive_aggressive",
     entries |-> <<
       \* 期待してない 期待しない 期待できない
       [reason |-> "part_000:281",
        patterns |-> <<<<26399, 24453, 12375, 12390, 12394, 12356>>,
                       <<26399, 24453, 12375, 12394, 12356>>,
                       <<26399, 24453, 12391, 12365, 12394, 12356>>>>],
       \* まあいいんじゃない 別にいいけど 好きにすれば どうでもいい
       [reason |-> "part_000:282",
        patterns |-> <<<<12414, 12354, 12356, 12356, 12435, 12376, 12419, 12394, 12356>>,
                       <<21029, 12395, 12356, 12356, 12369, 12393>>,
                       <<22909, 12365, 12395, 12377, 12428, 12400>>,
                       <<12393, 12358, 12391, 12418, 12356, 12356>>>>],
       \* 別にいいよ ご自由に 勝手にすれば
       [reason |-> "part_000:283",
        patterns |-> <<<<21029, 12395, 12356, 12356, 12424>>,
                       <<12372, 33258, 30001, 12395>>,
                       <<21213, 25163, 12395, 12377, 12428, 12400>>>>]>>]>>

\* DIRECT_INSULTS
DIRECT_INSULTS ==
  <<\* ばか バカ 馬鹿
    [category |-> "direct_insult", reason |-> "part_000:289", ultraSevere |-> FALSE,
     patterns |-> <<<<12400, 12363>>, <<12496, 12459>>, <<39340, 40575>>>>],
    \* アホ あほ 阿呆
    [category |-> "direct_insult", reason |-> "part_000:290", ultraSevere |-> FALSE,
     patterns |-> <<<<12450, 12507>>, <<12354, 12411>>, <<38463, 21574>>>>],
    \* 無能 能無し 役立たず
    [category |-> "direct_insult", reason |-> "part_000:291", ultraSevere |-> FALSE,
     patterns |-> <<<<28961, 33021>>, <<33021, 28961, 12375>>, <<24441, 31435, 12383, 12378>>>>],
    \* 死ね しね タヒね 死んで 死ねば
    [category |-> "direct_insult", reason |-> "part_000:292", ultraSevere |-> TRUE,
     patterns |-> <<<<27515, 12397>>, <<12375, 12397>>, <<12479, 12498, 12397>>, <<27515, 12435, 12391>>, <<27515, 12397, 12400>>>>],
    \* クズ くず カス ゴミ
    [category |-> "direct_insult", reason |-> "part_000:293", ultraSevere |-> FALSE,
     patterns |-> <<<<12463, 12474>>, <<12367, 12378>>, <<12459, 12473>>, <<12468, 12511>>>>],
    \* きもい キモい キモイ 気持ち悪い
    [category |-> "direct_insult", reason |-> "part_000:294", ultraSevere |-> FALSE,
     patterns |-> <<<<12365, 12418, 12356>>, <<12461, 12514, 12356>>, <<12461, 12514, 12452>>, <<27671, 25345, 12385, 24746, 12356>>>>],
    \* うざい ウザい ウザイ
    [category |-> "direct_insult", reason |-> "part_000:295", ultraSevere |-> FALSE,
     patterns |-> <<<<12358, 12374, 12356>>, <<12454, 12470, 12356>>, <<12454, 12470, 12452>>>>],
    \* お前 てめえ てめぇ おまえ
    [category |-> "direct_insult", reason |-> "part_000:296", ultraSevere |-> FALSE,
     patterns |-> <<<<12362, 21069>>, <<12390, 12417, 12360>>, <<12390, 12417, 12359>>, <<12362, 12414, 12360>>>>]>>
\* ｦｧｨｩｪｫｬｭｮｯｰｱｲｳｴｵｶｷｸｹｺｻｼｽｾｿﾀﾁﾂﾃﾄﾅﾆﾇﾈﾉﾊﾋﾌﾍﾎﾏﾐﾑﾒﾓﾔﾕﾖﾗﾘﾙﾚﾛﾜﾝﾞﾟ
hankakuMap ==
  <<65382, 65383, 65384, 65385, 65386, 65387, 65388, 65389, 65390, 65391, 65392, 65393,
    65394, 65395, 65396, 65397, 65398, 65399, 65400, 65401, 65402, 65403, 65404, 65405,
    65406, 65407, 65408, 65409, 65410, 65411, 65412, 65413, 65414, 65415, 65416, 65417,
    65418, 65419, 65420, 65421, 65422, 65423, 65424, 65425, 65426, 65427, 65428, 65429,
    65430, 65431, 65432, 65433, 65434, 65435, 65436, 65437, 65438, 65439>>

\* ヲァィゥェォャュョッーアイウエオカキクケコサシスセソタチツテトナニヌネノハヒフヘホマミムメモヤユヨラリルレロワン゛゜
zenkakuMap ==
  <<12530, 12449, 12451, 12453, 12455, 12457, 12515, 12517, 12519, 12483, 12540, 12450,
    12452, 12454, 12456, 12458, 12459, 12461, 12463, 12465, 12467, 12469, 12471, 12473,
    12475, 12477, 12479, 12481, 12484, 12486, 12488, 12490, 12491, 12492, 12493, 12494,
    12495, 12498, 12501, 12504, 12507, 12510, 12511, 12512, 12513, 12514, 12516, 12518,
    12520, 12521, 12522, 12523, 12524, 12525, 12527, 12531, 12443, 12444>>

\* the 16 codes accepted by /^[EI][SN][TF][JP]$/ (E 69, I 73, S 83, N 78,
\* T 84, F 70, J 74, P 80)
MBTI_TYPES ==
  {<<a, b, c, d>> : a \in {69, 73}, b \in {83, 78}, c \in {84, 70}, d \in {74, 80}}

\* って言われた と言われた 言われたら って言うな って言われて と言われて
QUOTE_PATTERNS ==
  <<<<12387, 12390, 35328, 12431, 12428, 12383>>, <<12392, 35328, 12431, 12428, 12383>>,
    <<35328, 12431, 12428, 12383, 12425>>, <<12387, 12390, 35328, 12358, 12394>>,
    <<12387, 12390, 35328, 12431, 12428, 12390>>, <<12392, 35328, 12431, 12428, 12390>>>>

(***************************************************************************)
(* normalizeText                                                           *)
(***************************************************************************)
\* [Ａ-Ｚａ-ｚ０-９]: U+FF21..U+FF3A, U+FF41..U+FF5A, U+FF10..U+FF19
IsFullWidthAlnum(ch) == ch \in (65313..65338) \cup (65345..65370) \cup (65296..65305)

\* the steps in another order: lower-casing before the folding of full-width
\* letters
NormalizeCharLowerFirst(ch) ==
  LET c1 == IF ch \in 65..90 THEN ch + 32 ELSE ch
      c2 == IF IsFullWidthAlnum(c1) THEN c1 - 65248 ELSE c1
      idx == CharIndex(hankakuMap, c2)
  IN  IF c2 \in 65382..65439 /\ idx > 0 THEN zenkakuMap[idx] ELSE c2

\* one character through steps (b), (c), (d) of normalizeText: full-width
\* Latin letters and digits to ASCII (code - 0xFEE0), half-width katakana
\* [U+FF66-U+FF9F] to full-width through hankakuMap/zenkakuMap, then
\* toLowerCase (A-Z to a-z; no other character of the model's texts changes)
NormalizeChar(ch) ==
  LET c1 == IF IsFullWidthAlnum(ch) THEN ch - 65248 ELSE ch
      idx == CharIndex(hankakuMap, c1)
      c2 == IF c1 \in 65382..65439 /\ idx > 0 THEN zenkakuMap[idx] ELSE c1
  IN  IF c2 \in 65..90 THEN c2 + 32 ELSE c2

RECURSIVE normalizeText(_)
normalizeText(text) ==
  IF text = <<>> THEN <<>>
  ELSE IF Head(text) \in WhiteSpace THEN normalizeText(Tail(text))
  ELSE <<NormalizeChar(Head(text))>> \o normalizeText(Tail(text))

(***************************************************************************)
(* isQuotedInsult: a quotation suffix occurs anywhere from the match on.   *)
(* matchIndex is 1-based.                                                  *)
(***************************************************************************)
\* isQuotedInsult looking before the match instead of after it
isQuotedInsultBefore(text, matchIndex) ==
  LET before == SubSeq(text, 1, matchIndex - 1)
  IN  \E q \in 1..Len(QUOTE_PATTERNS) : Includes(before, QUOTE_PATTERNS[q])

isQuotedInsult(text, matchIndex) ==
  LET after == Slice(text, matchIndex)
  IN  \E q \in 1..Len(QUOTE_PATTERNS) : Includes(after, QUOTE_PATTERNS[q])

(***************************************************************************)
(* analyzeLocal, Phase 1 and Phase 2: detection.                           *)
(*                                                                         *)
(* acc is the working state of the function:                               *)
(*   found               the findings, in detection order                  *)
(*   categoryBaseDamage  <<category, sum of baseSeverity>> in the order    *)
(*                       the keys were inserted (tenths)                   *)
(*   categoryMbtiDamage  the same with the multiplier applied (tenths)     *)
(*   directInsultCount, hasUltraSevere                                     *)
(***************************************************************************)
BaseSeverity(catId) ==
  LET hit == {k \in 1..Len(PSY_CATEGORIES) : PSY_CATEGORIES[k].id = catId}
  IN  IF hit = {} THEN 3 ELSE PSY_CATEGORIES[CHOOSE k \in hit : TRUE].baseSeverity

\* MBTI_MULTIPLIERS[targetMbti] || {}
Multipliers(targetMbti) ==
  IF targetMbti \in DOMAIN MBTI_MULTIPLIERS THEN MBTI_MULTIPLIERS[targetMbti] ELSE <<>>

\* multipliers[catId] || 1.0, in tenths
Mult(multipliers, catId) ==
  IF catId \in DOMAIN multipliers THEN multipliers[catId] ELSE 10

\* damage[catId] = (damage[catId] || 0) + d on an insertion-ordered object
AddDamage(damage, catId, d) ==
  IF \E k \in 1..Len(damage) : damage[k][1] = catId
    THEN [k \in 1..Len(damage) |->
           IF damage[k][1] = catId THEN <<catId, damage[k][2] + d>> ELSE damage[k]]
    ELSE Append(damage, <<catId, d>>)

\* a duplicate check that never finds the phrase
HasKeywordNever(found, pattern) == FALSE

\* found.some(f => f.keyword === pattern)
HasKeyword(found, pattern) == \E k \in 1..Len(found) : found[k].keyword = pattern

\* index of the first pattern of the list that occurs in the text, 0 if none
FirstMatch(patterns, normalized) ==
  IF \E k \in 1..Len(patterns) : Includes(normalized, patterns[k])
    THEN CHOOSE k \in 1..Len(patterns) :
           /\ Includes(normalized, patterns[k])
           /\ \A j \in 1..(k - 1) : ~Includes(normalized, patterns[j])
    ELSE 0

EmptyAcc ==
  [found |-> <<>>, categoryBaseDamage |-> <<>>, categoryMbtiDamage |-> <<>>,
   directInsultCount |-> 0, hasUltraSevere |-> FALSE]

\* a Phase 1 that weighs the damage of an insult with the personality type's
\* sensitivity to emotional_dismiss
InsultStepBySensitivity(acc, di, normalized, targetMbti) ==
  LET k == FirstMatch(di.patterns, normalized)
  IN  IF k = 0 THEN acc
      ELSE LET pattern == di.patterns[k]
               idx == IndexOf(normalized, pattern)
               base == BaseSeverity("direct_insult") * 10
           IN  IF isQuotedInsult(normalized, idx) THEN acc
               ELSE IF HasKeyword(acc.found, pattern) THEN acc
               ELSE [found |-> Append(acc.found,
                                 [keyword |-> pattern, reason |-> di.reason,
                                  mbtiTypes |-> <<targetMbti>>,
                                  category |-> "direct_insult", damage |-> base]),
                     categoryBaseDamage |->
                       AddDamage(acc.categoryBaseDamage, "direct_insult", base),
                     categoryMbtiDamage |->
                       AddDamage(acc.categoryMbtiDamage, "direct_insult",
                                 BaseSeverity("direct_insult")
                                   * Mult(Multipliers(targetMbti), "emotional_dismiss")),
                     directInsultCount |-> acc.directInsultCount + 1,
                     hasUltraSevere |-> acc.hasUltraSevere \/ di.ultraSevere]

\* one iteration of the Phase 1 loop, for the insult group di
InsultStep(acc, di, normalized, targetMbti) ==
  LET k == FirstMatch(di.patterns, normalized)
  IN  IF k = 0 THEN acc
      ELSE LET pattern == di.patterns[k]
               idx == IndexOf(normalized, pattern)
               base == BaseSeverity("direct_insult") * 10
           IN  IF isQuotedInsult(normalized, idx) THEN acc
               ELSE IF HasKeyword(acc.found, pattern) THEN acc
               ELSE [found |-> Append(acc.found,
                                 [keyword |-> pattern, reason |-> di.reason,
                                  mbtiTypes |-> <<targetMbti>>,
                                  category |-> "direct_insult", damage |-> base]),
                     categoryBaseDamage |->
                       AddDamage(acc.categoryBaseDamage, "direct_insult", base),
                     categoryMbtiDamage |->
                       AddDamage(acc.categoryMbtiDamage, "direct_insult", base),
                     directInsultCount |-> acc.directInsultCount + 1,
                     hasUltraSevere |-> acc.hasUltraSevere \/ di.ultraSevere]

\* the Phase 1 loop over DIRECT_INSULTS, from group g on.  The guard of the
\* recursive call always holds (found only grows): it has TLC evaluate one
\* iteration before the next one starts
RECURSIVE Phase1(_, _, _, _)
Phase1(acc, g, normalized, targetMbti) ==
  IF g > Len(DIRECT_INSULTS) THEN acc
  ELSE LET next == InsultStep(acc, DIRECT_INSULTS[g], normalized, targetMbti)
       IN  IF Len(next.found) >= Len(acc.found)
             THEN Phase1(next, g + 1, normalized, targetMbti)
             ELSE acc

\* one iteration of the inner Phase 2 loop, for one entry of category catId
CategoryStep(acc, catId, entry, normalized, targetMbti) ==
  LET k == FirstMatch(entry.patterns, normalized)
  IN  IF k = 0 THEN acc
      ELSE LET pattern == entry.patterns[k]
               base == BaseSeverity(catId) * 10
               mbtiDamage == BaseSeverity(catId) * Mult(Multipliers(targetMbti), catId)
           IN  IF HasKeyword(acc.found, pattern) THEN acc
               ELSE [acc EXCEPT
                       !.found = Append(@, [keyword |-> pattern, reason |-> entry.reason,
                                            mbtiTypes |-> <<targetMbti>>,
                                            category |-> catId, damage |-> mbtiDamage]),
                       !.categoryBaseDamage = AddDamage(@, catId, base),
                       !.categoryMbtiDamage = AddDamage(@, catId, mbtiDamage)]

\* for (const entry of entries), from entry e on
RECURSIVE EntryLoop(_, _, _, _, _)
EntryLoop(acc, cat, e, normalized, targetMbti) ==
  IF e > Len(cat.entries) THEN acc
  ELSE LET next == CategoryStep(acc, cat.category, cat.entries[e], normalized, targetMbti)
       IN  IF Len(next.found) >= Len(acc.found)
             THEN EntryLoop(next, cat, e + 1, normalized, targetMbti)
             ELSE acc

\* for (const [catId, entries] of Object.entries(CATEGORY_PATTERNS)), from c on
RECURSIVE Phase2(_, _, _, _)
Phase2(acc, c, normalized, targetMbti) ==
  IF c > Len(CATEGORY_PATTERNS) THEN acc
  ELSE LET next == EntryLoop(acc, CATEGORY_PATTERNS[c], 1, normalized, targetMbti)
       IN  IF Len(next.found) >= Len(acc.found)
             THEN Phase2(next, c + 1, normalized, targetMbti)
             ELSE acc

Detect(normalized, targetMbti) ==
  Phase2(Phase1(EmptyAcc, 1, normalized, targetMbti), 1, normalized, targetMbti)

(***************************************************************************)
(* analyzeLocal: tone correction and pressure correction.                  *)
(***************************************************************************)
\* ！ (U+FF01) and !
Exclam == {65281, 33}

\* ？ (U+FF1F) and ?
Question == {65311, 63}

\* /[！!]{2,}|[！!][？?]|[？?][！!]/.test(text)
ExclamBurst(text) ==
  \E i \in 1..(Len(text) - 1) :
    \/ text[i] \in Exclam /\ text[i + 1] \in Exclam
    \/ text[i] \in Exclam /\ text[i + 1] \in Question
    \/ text[i] \in Question /\ text[i + 1] \in Exclam

\* (text.match(/！|!/g) || []).length
ExclamCount(text) == Cardinality({i \in 1..Len(text) : text[i] \in Exclam})

\* /[？?]{n,}/.test(text)
QuestionRun(text, n) ==
  \E i \in 1..(Len(text) - n + 1) : \A j \in 0..(n - 1) : text[i + j] \in Question

\* alternatives of /ナンデ|マジデ|フツウ|ホント[ニ二]|イミ[ワハ]カ|ダカラ|ムリ[ダだ]|ウザ|キモ/
\* ナンデ マジデ フツウ ホントニ ホント二 イミワカ イミハカ ダカラ ムリダ ムリだ ウザ キモ
KATAKANA_EMPHASIS ==
  <<<<12490, 12531, 12487>>, <<12510, 12472, 12487>>, <<12501, 12484, 12454>>,
    <<12507, 12531, 12488, 12491>>, <<12507, 12531, 12488, 20108>>,
    <<12452, 12511, 12527, 12459>>, <<12452, 12511, 12495, 12459>>,
    <<12480, 12459, 12521>>, <<12512, 12522, 12480>>, <<12512, 12522, 12384>>,
    <<12454, 12470>>, <<12461, 12514>>>>

\* the alternatives of the command regex that match anywhere
\* しなさい するな やめろ やめなさい 黙れ 出ていけ 消えろ どけ 失せろ 帰れ 来るな
COMMAND_WORDS ==
  <<<<12375, 12394, 12373, 12356>>, <<12377, 12427, 12394>>, <<12420, 12417, 12429>>,
    <<12420, 12417, 12394, 12373, 12356>>, <<40665, 12428>>, <<20986, 12390, 12356, 12369>>,
    <<28040, 12360, 12429>>, <<12393, 12369>>, <<22833, 12379, 12429>>, <<24112, 12428>>,
    <<26469, 12427, 12394>>>>

\* /[しすき]ろ[。！!]?$/m on the normalized text: the text holds no line
\* terminator after normalization, so $ is the end of the text
CommandEnding(normalized) ==
  LET n == Len(normalized)
      \* ろ preceded by one of し す き
      RoAt(i) == /\ i >= 2
                 /\ normalized[i] = 12429
                 /\ normalized[i - 1] \in {12375, 12377, 12365}
  IN  \/ RoAt(n)
      \* an optional 。 ！ or ! before the end
      \/ n >= 1 /\ normalized[n] \in {12290, 65281, 33} /\ RoAt(n - 1)

CommandTone(normalized) ==
  \/ CommandEnding(normalized)
  \/ \E k \in 1..Len(COMMAND_WORDS) : Includes(normalized, COMMAND_WORDS[k])

\* alternatives of /ない|ません|じゃない|ではない|できない|しない/g, in order
\* ない ません じゃない ではない できない しない
NEGATIONS ==
  <<<<12394, 12356>>, <<12414, 12379, 12435>>, <<12376, 12419, 12394, 12356>>,
    <<12391, 12399, 12394, 12356>>, <<12391, 12365, 12394, 12356>>, <<12375, 12394, 12356>>>>

\* number of matches of the global regex: scan from the left, at each position
\* take the first alternative that matches and continue after it
RECURSIVE NegCount(_, _)
NegCount(normalized, i) ==
  IF i > Len(normalized) THEN 0
  ELSE LET hit == {k \in 1..Len(NEGATIONS) : MatchAt(normalized, NEGATIONS[k], i)}
       IN  IF hit = {} THEN NegCount(normalized, i + 1)
           ELSE LET k == CHOOSE k \in hit : \A j \in hit : k <= j
                IN  1 + NegCount(normalized, i + Len(NEGATIONS[k]))

ExclamTone(text) ==
  IF ExclamBurst(text) THEN 15
  ELSE IF ExclamCount(text) >= 3 THEN 8
  ELSE IF ExclamCount(text) >= 1 THEN 1
  ELSE 0

QuestionTone(text) ==
  IF QuestionRun(text, 3) THEN 15
  ELSE IF QuestionRun(text, 2) THEN 8
  ELSE 0

KatakanaTone(normalized) ==
  IF \E k \in 1..Len(KATAKANA_EMPHASIS) : Includes(normalized, KATAKANA_EMPHASIS[k])
    THEN 15 ELSE 0

NegationTone(normalized) == IF NegCount(normalized, 1) >= 3 THEN 5 ELSE 0

ToneCorrection(text, normalized) ==
  ExclamTone(text) + QuestionTone(text) + KatakanaTone(normalized)
    + (IF CommandTone(normalized) THEN 10 ELSE 0) + NegationTone(normalized)

\* uniqueCats is Object.keys(categoryMbtiDamage)
PressureCorrection(normalized, categoryMbtiDamage) ==
  (IF Len(normalized) > 200 THEN 2 ELSE 0)
    + (IF Len(normalized) < 5 /\ Len(normalized) > 0 THEN 3 ELSE 0)
    + (IF Len(categoryMbtiDamage) >= 3 THEN 5 ELSE 0)

(***************************************************************************)
(* analyzeLocal: score.                                                    *)
(***************************************************************************)
\* Object.values(damage).reduce((a, b) => a + b, 0), in tenths
RECURSIVE TotalDamage(_)
TotalDamage(damage) ==
  IF damage = <<>> THEN 0 ELSE Head(damage)[2] + TotalDamage(Tail(damage))

\* PowDeductionTable[d + 1] is 100 - Math.round(100 - Math.pow(d / 10, 1.3) * 2.0)
\* for a damage of d tenths; from 20.4 on the rounded deduction is above 100 and
\* every such value gives the same clamped score, so the table ends there
PowDeductionTable ==
  <<0, 0, 0, 0, 1, 1, 1, 1, 1, 2, 2, 2, 3, 3, 3, 3, 4, 4, 4, 5,
    5, 5, 6, 6, 6, 7, 7, 7, 8, 8, 8, 9, 9, 9, 10, 10, 11, 11, 11, 12,
    12, 13, 13, 13, 14, 14, 15, 15, 15, 16, 16, 17, 17, 17, 18, 18, 19, 19, 20, 20,
    21, 21, 21, 22, 22, 23, 23, 24, 24, 25, 25, 26, 26, 27, 27, 27, 28, 28, 29, 29,
    30, 30, 31, 31, 32, 32, 33, 33, 34, 34, 35, 35, 36, 36, 37, 37, 38, 38, 39, 39,
    40, 40, 41, 41, 42, 43, 43, 44, 44, 45, 45, 46, 46, 47, 47, 48, 48, 49, 49, 50,
    51, 51, 52, 52, 53, 53, 54, 54, 55, 56, 56, 57, 57, 58, 58, 59, 60, 60, 61, 61,
    62, 62, 63, 64, 64, 65, 65, 66, 66, 67, 68, 68, 69, 69, 70, 71, 71, 72, 72, 73,
    74, 74, 75, 75, 76, 77, 77, 78, 78, 79, 80, 80, 81, 81, 82, 83, 83, 84, 84, 85,
    86, 86, 87, 88, 88, 89, 89, 90, 91, 91, 92, 93, 93, 94, 94, 95, 96, 96, 97, 98,
    98, 99, 100, 100, 101>>

PowDeduction(damage) ==
  PowDeductionTable[Min(damage, Len(PowDeductionTable) - 1) + 1]

\* Clamp100 without its lower bound
ClampUpperOnly(x) == Min(100, x)

\* Math.max(0, Math.min(100, x))
Clamp100(x) == Max(0, Min(100, x))

\* Math.max(0, Math.min(100, Math.round(100 - (pow(d, 1.3) * 2.0 + tone + pressure))))
RawScore(damage, toneCorrection, pressureCorrection) ==
  Clamp100(100 - (PowDeduction(damage) + toneCorrection + pressureCorrection))

\* ClampToBase without the +/- 10 window
ClampToBaseNoWindow(baseScore, mbtiRawScore) == Clamp100(mbtiRawScore)

\* clamp of the weighted score to baseScore +/- 10
ClampToBase(baseScore, mbtiRawScore) ==
  Clamp100(Max(baseScore - 10, Min(baseScore + 10, mbtiRawScore)))

\* InsultCap counting from the second insult
InsultCapOffByOne(directInsultCount) == Max(0, 30 - (directInsultCount - 2) * 20)

\* Math.max(0, 30 - (directInsultCount - 1) * 20)
InsultCap(directInsultCount) == Max(0, 30 - (directInsultCount - 1) * 20)

\* ApplyInsultCap without the ultra-severe branch
ApplyInsultCapCountOnly(score, hasUltraSevere, directInsultCount) ==
  IF directInsultCount > 0 THEN Min(score, InsultCap(directInsultCount)) ELSE score

\* the caps of the score: 5 with an ultra-severe insult, else by insult count
ApplyInsultCap(score, hasUltraSevere, directInsultCount) ==
  IF hasUltraSevere THEN Min(score, 5)
  ELSE IF directInsultCount > 0 THEN Min(score, InsultCap(directInsultCount))
  ELSE score

Score(acc, toneCorrection, pressureCorrection) ==
  LET baseScore == RawScore(TotalDamage(acc.categoryBaseDamage),
                            toneCorrection, pressureCorrection)
      mbtiRawScore == RawScore(TotalDamage(acc.categoryMbtiDamage),
                               toneCorrection, pressureCorrection)
  IN  ApplyInsultCap(ClampToBase(baseScore, mbtiRawScore),
                     acc.hasUltraSevere, acc.directInsultCount)

\* ngWords: found.map(({ _category, _damage, ...rest }) => rest)
CleanFound(found) ==
  [k \in 1..Len(found) |->
     [keyword |-> found[k].keyword, reason |-> found[k].reason,
      mbtiTypes |-> found[k].mbtiTypes]]

(***************************************************************************)
(* analyzeLocal: scoreReason.  A reason is the string literal or template  *)
(* of a source line with what the template interpolates: the category      *)
(* whose label and description it prints ("" if none) and the personality  *)
(* code (<<>> if none).                                                    *)
(***************************************************************************)
Reason(line, category, mbti) == [line |-> line, category |-> category, mbti |-> mbti]

\* toneReasons, in the order the checks push them
ToneReasons(text, normalized) ==
  (IF ExclamBurst(text) THEN <<Reason(437, "", <<>>)>>
   ELSE IF ExclamCount(text) >= 3 THEN <<Reason(442, "", <<>>)>>
   ELSE <<>>)
  \o (IF QuestionRun(text, 3) THEN <<Reason(450, "", <<>>)>>
      ELSE IF QuestionRun(text, 2) THEN <<Reason(453, "", <<>>)>>
      ELSE <<>>)
  \o (IF KatakanaTone(normalized) > 0 THEN <<Reason(458, "", <<>>)>> ELSE <<>>)
  \o (IF CommandTone(normalized) THEN <<Reason(463, "", <<>>)>> ELSE <<>>)
  \o (IF NegationTone(normalized) > 0 THEN <<Reason(469, "", <<>>)>> ELSE <<>>)

\* pressureReasons
PressureReasons(normalized, categoryMbtiDamage) ==
  (IF Len(normalized) > 200 THEN <<Reason(478, "", <<>>)>> ELSE <<>>)
  \o (IF Len(normalized) < 5 /\ Len(normalized) > 0 THEN <<Reason(483, "", <<>>)>> ELSE <<>>)
  \o (IF Len(categoryMbtiDamage) >= 3 THEN <<Reason(489, "", <<>>)>> ELSE <<>>)

\* Object.entries(categoryMbtiDamage).sort((a, b) => b[1] - a[1]): the
\* entries by descending damage, entries of equal damage in insertion order
RECURSIVE SortByDamage(_)
SortByDamage(damage) ==
  IF damage = <<>> THEN <<>>
  ELSE LET top == CHOOSE k \in 1..Len(damage) :
                    /\ \A j \in 1..Len(damage) : damage[j][2] <= damage[k][2]
                    /\ \A j \in 1..(k - 1) : damage[j][2] < damage[k][2]
           rest == [j \in 1..(Len(damage) - 1) |->
                      IF j < top THEN damage[j] ELSE damage[j + 1]]
       IN  <<damage[top]>> \o SortByDamage(rest)

\* the reason pushed for one of the three most damaged categories
CategoryReason(catId, targetMbti) ==
  LET mult == Mult(Multipliers(targetMbti), catId)
  IN  IF \A k \in 1..Len(PSY_CATEGORIES) : PSY_CATEGORIES[k].id # catId THEN <<>>
      ELSE IF mult >= 18 THEN <<Reason(532, catId, targetMbti)>>
      ELSE IF mult >= 13 THEN <<Reason(534, catId, targetMbti)>>
      ELSE <<Reason(536, catId, <<>>)>>

\* a summary that has a sentence for every score, the last band without
\* its upper limit
SummaryReasonEveryScore(score) ==
  IF score <= 20 THEN <<Reason(542, "", <<>>)>>
  ELSE IF score <= 40 THEN <<Reason(544, "", <<>>)>>
  ELSE IF score <= 60 THEN <<Reason(546, "", <<>>)>>
  ELSE <<Reason(548, "", <<>>)>>

\* the reason pushed for the score, none above 80
SummaryReason(score) ==
  IF score <= 20 THEN <<Reason(542, "", <<>>)>>
  ELSE IF score <= 40 THEN <<Reason(544, "", <<>>)>>
  ELSE IF score <= 60 THEN <<Reason(546, "", <<>>)>>
  ELSE IF score <= 80 THEN <<Reason(548, "", <<>>)>>
  ELSE <<>>

\* the two reasons of a text without risk
SafeReasons(targetMbti) == <<Reason(519, "", targetMbti), Reason(520, "", <<>>)>>

\* the affirmative reasons also for a text whose pressure correction is not 0
scoreReasonIgnoringPressure(acc, targetMbti, score, tone, pressure, toneReasons, pressureReasons) ==
  IF Len(acc.found) = 0 /\ tone = 0
    THEN SafeReasons(targetMbti)
    ELSE SummaryReason(score) \o toneReasons \o pressureReasons

\* tone and pressure are toneCorrection and pressureCorrection
scoreReason(acc, targetMbti, score, tone, pressure, toneReasons, pressureReasons) ==
  IF Len(acc.found) = 0 /\ tone = 0 /\ pressure = 0
    THEN SafeReasons(targetMbti)
    ELSE LET sorted == SortByDamage(acc.categoryMbtiDamage)
             sortedCats == SubSeq(sorted, 1, Min(3, Len(sorted)))
             catReasons[k \in 0..Len(sortedCats)] ==
               IF k = 0 THEN <<>>
               ELSE catReasons[k - 1] \o CategoryReason(sortedCats[k][1], targetMbti)
         IN  catReasons[Len(sortedCats)] \o SummaryReason(score)
               \o toneReasons \o pressureReasons

(***************************************************************************)
(* analyzeLocal: the improved text.  The regular expressions of            *)
(* TRANSFORM_RULES have the shape /pre(.+)post[opt]?/g or are literals.    *)
(***************************************************************************)
\* TRANSFORM_RULES, the groups in source order.  A rule /pre(.+)post[opt]?/g is
\* pre and post as sequences of character sets, group telling whether (.+) is
\* there, and opt the set of the optional last character; its replacement is
\* head, then $1 if useGroup, then tail
TRANSFORM_RULES ==
  <<[name |-> "command",
     rules |-> <<
       \* 303: /(.+)[しすき]ろ[。！!]?/g -> $1してみるのはどうかな？
       [pre |-> <<>>, group |-> TRUE, post |-> <<{12375, 12377, 12365}, {12429}>>,
        opt |-> {12290, 65281, 33},
        head |-> <<>>,
        useGroup |-> TRUE,
        tail |-> <<12375, 12390, 12415, 12427, 12398, 12399, 12393, 12358, 12363, 12394, 65311>>],
       \* 304: /(.+)しなさい[。！!]?/g -> $1してみない？
       [pre |-> <<>>, group |-> TRUE, post |-> <<{12375}, {12394}, {12373}, {12356}>>,
        opt |-> {12290, 65281, 33},
        head |-> <<>>,
        useGroup |-> TRUE,
        tail |-> <<12375, 12390, 12415, 12394, 12356, 65311>>],
       \* 305: /(.+)するな[。！!]?/g -> $1しないほうがいいかもしれないけど、どう思う？
       [pre |-> <<>>, group |-> TRUE, post |-> <<{12377}, {12427}, {12394}>>,
        opt |-> {12290, 65281, 33},
        head |-> <<>>,
        useGroup |-> TRUE,
        tail |-> <<12375, 12394, 12356, 12411, 12358, 12364, 12356, 12356, 12363, 12418, 12375, 12428, 12394, 12356, 12369, 12393, 12289, 12393, 12358, 24605, 12358, 65311>>],
       \* 306: /やめろ/g -> 一度立ち止まって考えてみない？
       [pre |-> <<{12420}, {12417}, {12429}>>, group |-> FALSE, post |-> <<>>,
        opt |-> {},
        head |-> <<19968, 24230, 31435, 12385, 27490, 12414, 12387, 12390, 32771, 12360, 12390, 12415, 12394, 12356, 65311>>,
        useGroup |-> FALSE,
        tail |-> <<>>],
       \* 307: /やめなさい/g -> 少し休んでみるのはどうかな？
       [pre |-> <<{12420}, {12417}, {12394}, {12373}, {12356}>>, group |-> FALSE, post |-> <<>>,
        opt |-> {},
        head |-> <<23569, 12375, 20241, 12435, 12391, 12415, 12427, 12398, 12399, 12393, 12358, 12363, 12394, 65311>>,
        useGroup |-> FALSE,
        tail |-> <<>>],
       \* 308: /黙れ/g -> 少し落ち着いて話そう
       [pre |-> <<{40665}, {12428}>>, group |-> FALSE, post |-> <<>>,
        opt |-> {},
        head |-> <<23569, 12375, 33853, 12385, 30528, 12356, 12390, 35441, 12381, 12358>>,
        useGroup |-> FALSE,
        tail |-> <<>>],
       \* 309: /出ていけ/g -> 少し距離を置いて考えよう
       [pre |-> <<{20986}, {12390}, {12356}, {12369}>>, group |-> FALSE, post |-> <<>>,
        opt |-> {},
        head |-> <<23569, 12375, 36317, 38626, 12434, 32622, 12356, 12390, 32771, 12360, 12424, 12358>>,
        useGroup |-> FALSE,
        tail |-> <<>>],
       \* 310: /消えろ/g -> お互い少し時間をおこう
       [pre |-> <<{28040}, {12360}, {12429}>>, group |-> FALSE, post |-> <<>>,
        opt |-> {},
        head |-> <<12362, 20114, 12356, 23569, 12375, 26178, 38291, 12434, 12362, 12371, 12358>>,
        useGroup |-> FALSE,
        tail |-> <<>>],
       \* 311: /失せろ/g -> お互い冷静になってから話そう
       [pre |-> <<{22833}, {12379}, {12429}>>, group |-> FALSE, post |-> <<>>,
        opt |-> {},
        head |-> <<12362, 20114, 12356, 20919, 38745, 12395, 12394, 12387, 12390, 12363, 12425, 35441, 12381, 12358>>,
        useGroup |-> FALSE,
        tail |-> <<>>],
       \* 312: /帰れ/g -> 今日はここまでにしよう
       [pre |-> <<{24112}, {12428}>>, group |-> FALSE, post |-> <<>>,
        opt |-> {},
        head |-> <<20170, 26085, 12399, 12371, 12371, 12414, 12391, 12395, 12375, 12424, 12358>>,
        useGroup |-> FALSE,
        tail |-> <<>>],
       \* 313: /来るな/g -> 少し時間をおいてからにしよう
       [pre |-> <<{26469}, {12427}, {12394}>>, group |-> FALSE, post |-> <<>>,
        opt |-> {},
        head |-> <<23569, 12375, 26178, 38291, 12434, 12362, 12356, 12390, 12363, 12425, 12395, 12375, 12424, 12358>>,
        useGroup |-> FALSE,
        tail |-> <<>>]>>],
    [name |-> "assertion",
     rules |-> <<
       \* 317: /絶対(.+)だ[。！!]?/g -> $1かもしれないね。どう思う？
       [pre |-> <<{32118}, {23550}>>, group |-> TRUE, post |-> <<{12384}>>,
        opt |-> {12290, 65281, 33},
        head |-> <<>>,
        useGroup |-> TRUE,
        tail |-> <<12363, 12418, 12375, 12428, 12394, 12356, 12397, 12290, 12393, 12358, 24605, 12358, 65311>>],
       \* 318: /(.+)に決まってる/g -> $1の可能性もあるけど、他にも考えられるかな？
       [pre |-> <<>>, group |-> TRUE, post |-> <<{12395}, {27770}, {12414}, {12387}, {12390}, {12427}>>,
        opt |-> {},
        head |-> <<>>,
        useGroup |-> TRUE,
        tail |-> <<12398, 21487, 33021, 24615, 12418, 12354, 12427, 12369, 12393, 12289, 20182, 12395, 12418, 32771, 12360, 12425, 12428, 12427, 12363, 12394, 65311>>],
       \* 319: /間違いなく/g -> もしかすると
       [pre |-> <<{38291}, {36949}, {12356}, {12394}, {12367}>>, group |-> FALSE, post |-> <<>>,
        opt |-> {},
        head |-> <<12418, 12375, 12363, 12377, 12427, 12392>>,
        useGroup |-> FALSE,
        tail |-> <<>>],
       \* 320: /当然(.+)でしょ/g -> $1という考え方もあるけど、あなたはどう思う？
       [pre |-> <<{24403}, {28982}>>, group |-> TRUE, post |-> <<{12391}, {12375}, {12423}>>,
        opt |-> {},
        head |-> <<>>,
        useGroup |-> TRUE,
        tail |-> <<12392, 12356, 12358, 32771, 12360, 26041, 12418, 12354, 12427, 12369, 12393, 12289, 12354, 12394, 12383, 12399, 12393, 12358, 24605, 12358, 65311>>]>>],
    [name |-> "denial",
     rules |-> <<
       \* 324: /(.+)なんて無駄/g -> $1に取り組んでるんだね。もっと効果的な方法も一緒に探してみない？
       [pre |-> <<>>, group |-> TRUE, post |-> <<{12394}, {12435}, {12390}, {28961}, {39364}>>,
        opt |-> {},
        head |-> <<>>,
        useGroup |-> TRUE,
        tail |-> <<12395, 21462, 12426, 32068, 12435, 12391, 12427, 12435, 12384, 12397, 12290, 12418, 12387, 12392, 21177, 26524, 30340, 12394, 26041, 27861, 12418, 19968, 32210, 12395, 25506, 12375, 12390, 12415, 12394, 12356, 65311>>],
       \* 325: /(.+)なんて意味ない/g -> $1を頑張ってるんだね。別のアプローチも考えてみない？
       [pre |-> <<>>, group |-> TRUE, post |-> <<{12394}, {12435}, {12390}, {24847}, {21619}, {12394}, {12356}>>,
        opt |-> {},
        head |-> <<>>,
        useGroup |-> TRUE,
        tail |-> <<12434, 38929, 24373, 12387, 12390, 12427, 12435, 12384, 12397, 12290, 21029, 12398, 12450, 12503, 12525, 12540, 12481, 12418, 32771, 12360, 12390, 12415, 12394, 12356, 65311>>],
       \* 326: /できるわけない/g -> 難しいかもしれないけど、一緒にやり方を考えてみよう
       [pre |-> <<{12391}, {12365}, {12427}, {12431}, {12369}, {12394}, {12356}>>, group |-> FALSE, post |-> <<>>,
        opt |-> {},
        head |-> <<38627, 12375, 12356, 12363, 12418, 12375, 12428, 12394, 12356, 12369, 12393, 12289, 19968, 32210, 12395, 12420, 12426, 26041, 12434, 32771, 12360, 12390, 12415, 12424, 12358>>,
        useGroup |-> FALSE,
        tail |-> <<>>],
       \* 327: /無理に決まってる/g -> 大変そうだね。小さなステップから始めてみるのはどう？
       [pre |-> <<{28961}, {29702}, {12395}, {27770}, {12414}, {12387}, {12390}, {12427}>>, group |-> FALSE, post |-> <<>>,
        opt |-> {},
        head |-> <<22823, 22793, 12381, 12358, 12384, 12397, 12290, 23567, 12373, 12394, 12473, 12486, 12483, 12503, 12363, 12425, 22987, 12417, 12390, 12415, 12427, 12398, 12399, 12393, 12358, 65311>>,
        useGroup |-> FALSE,
        tail |-> <<>>],
       \* 328: /どうせ(.+)できない/g -> $1は難しいかもしれないけど、まずやれることから始めてみない？
       [pre |-> <<{12393}, {12358}, {12379}>>, group |-> TRUE, post |-> <<{12391}, {12365}, {12394}, {12356}>>,
        opt |-> {},
        head |-> <<>>,
        useGroup |-> TRUE,
        tail |-> <<12399, 38627, 12375, 12356, 12363, 12418, 12375, 12428, 12394, 12356, 12369, 12393, 12289, 12414, 12378, 12420, 12428, 12427, 12371, 12392, 12363, 12425, 22987, 12417, 12390, 12415, 12394, 12356, 65311>>]>>],
    [name |-> "comparison_transform",
     rules |-> <<
       \* 332: /(.+)を見習え/g -> あなたにはあなたの強みがあるよね。$1のこういう部分は参考になるかも
       [pre |-> <<>>, group |-> TRUE, post |-> <<{12434}, {35211}, {32722}, {12360}>>,
        opt |-> {},
        head |-> <<12354, 12394, 12383, 12395, 12399, 12354, 12394, 12383, 12398, 24375, 12415, 12364, 12354, 12427, 12424, 12397, 12290>>,
        useGroup |-> TRUE,
        tail |-> <<12398, 12371, 12358, 12356, 12358, 37096, 20998, 12399, 21442, 32771, 12395, 12394, 12427, 12363, 12418>>],
       \* 333: /(.+)はできるのに/g -> あなたにはあなたのペースがあるよね
       [pre |-> <<>>, group |-> TRUE, post |-> <<{12399}, {12391}, {12365}, {12427}, {12398}, {12395}>>,
        opt |-> {},
        head |-> <<12354, 12394, 12383, 12395, 12399, 12354, 12394, 12383, 12398, 12506, 12540, 12473, 12364, 12354, 12427, 12424, 12397>>,
        useGroup |-> FALSE,
        tail |-> <<>>],
       \* 334: /他の人は(.+)/g -> それぞれ違うやり方があるよね。あなたはどうしたい？
       [pre |-> <<{20182}, {12398}, {20154}, {12399}>>, group |-> TRUE, post |-> <<>>,
        opt |-> {},
        head |-> <<12381, 12428, 12382, 12428, 36949, 12358, 12420, 12426, 26041, 12364, 12354, 12427, 12424, 12397, 12290, 12354, 12394, 12383, 12399, 12393, 12358, 12375, 12383, 12356, 65311>>,
        useGroup |-> FALSE,
        tail |-> <<>>]>>]>>

\* templates of generatePsychologicalReplacement: what follows the keyword,
\* by category; every template starts with ( and the keyword
TEMPLATES ==
  <<\* →）【この表現は削除すべきです】
    [category |-> "direct_insult",
     suffix |-> <<8594, 65289, 12304, 12371, 12398, 34920, 29694, 12399, 21066, 38500, 12377, 12409, 12365, 12391, 12377, 12305>>],
    \* →）あなたの考えには価値があるよ。一緒に方法を探してみない？
    [category |-> "ideal_denial",
     suffix |-> <<8594, 65289, 12354, 12394, 12383, 12398, 32771, 12360, 12395, 12399, 20385, 20516, 12364, 12354, 12427, 12424, 12290, 19968, 32210, 12395, 26041, 27861, 12434, 25506, 12375, 12390, 12415, 12394, 12356, 65311>>],
    \* →）こうしてみるのはどうかな？
    [category |-> "command",
     suffix |-> <<8594, 65289, 12371, 12358, 12375, 12390, 12415, 12427, 12398, 12399, 12393, 12358, 12363, 12394, 65311>>],
    \* →）応援してるよ。自分のペースでいいからね
    [category |-> "command_soft",
     suffix |-> <<8594, 65289, 24540, 25588, 12375, 12390, 12427, 12424, 12290, 33258, 20998, 12398, 12506, 12540, 12473, 12391, 12356, 12356, 12363, 12425, 12397>>],
    \* →）あなたにはあなたの良さがあるよね
    [category |-> "comparison",
     suffix |-> <<8594, 65289, 12354, 12394, 12383, 12395, 12399, 12354, 12394, 12383, 12398, 33391, 12373, 12364, 12354, 12427, 12424, 12397>>],
    \* →）その気持ちは大切だよ。聞かせてくれてありがとう
    [category |-> "emotional_dismiss",
     suffix |-> <<8594, 65289, 12381, 12398, 27671, 25345, 12385, 12399, 22823, 20999, 12384, 12424, 12290, 32862, 12363, 12379, 12390, 12367, 12428, 12390, 12354, 12426, 12364, 12392, 12358>>],
    \* →）あなたのそういうところも個性だよね
    [category |-> "identity_attack",
     suffix |-> <<8594, 65289, 12354, 12394, 12383, 12398, 12381, 12358, 12356, 12358, 12392, 12371, 12429, 12418, 20491, 24615, 12384, 12424, 12397>>],
    \* →）いろんなやり方があるよね。あなたのやり方も聞かせて
    [category |-> "conformity",
     suffix |-> <<8594, 65289, 12356, 12429, 12435, 12394, 12420, 12426, 26041, 12364, 12354, 12427, 12424, 12397, 12290, 12354, 12394, 12383, 12398, 12420, 12426, 26041, 12418, 32862, 12363, 12379, 12390>>],
    \* →）難しいかもしれないけど、やり方を一緒に考えよう
    [category |-> "capability_deny",
     suffix |-> <<8594, 65289, 38627, 12375, 12356, 12363, 12418, 12375, 12428, 12394, 12356, 12369, 12393, 12289, 12420, 12426, 26041, 12434, 19968, 32210, 12395, 32771, 12360, 12424, 12358>>],
    \* →）こういう方法もあるかも。どう思う？
    [category |-> "freedom_restrict",
     suffix |-> <<8594, 65289, 12371, 12358, 12356, 12358, 26041, 27861, 12418, 12354, 12427, 12363, 12418, 12290, 12393, 12358, 24605, 12358, 65311>>],
    \* →）気にかけてくれてありがとう
    [category |-> "goodwill_reject",
     suffix |-> <<8594, 65289, 27671, 12395, 12363, 12369, 12390, 12367, 12428, 12390, 12354, 12426, 12364, 12392, 12358>>],
    \* →）話せるタイミングで教えてくれたら嬉しいな
    [category |-> "privacy_invade",
     suffix |-> <<8594, 65289, 35441, 12379, 12427, 12479, 12452, 12511, 12531, 12464, 12391, 25945, 12360, 12390, 12367, 12428, 12383, 12425, 23305, 12375, 12356, 12394>>],
    \* →）これからどうするか一緒に考えよう
    [category |-> "past_blame",
     suffix |-> <<8594, 65289, 12371, 12428, 12363, 12425, 12393, 12358, 12377, 12427, 12363, 19968, 32210, 12395, 32771, 12360, 12424, 12358>>],
    \* →）具体的にはこの部分をこうしてみない？
    [category |-> "vague_criticism",
     suffix |-> <<8594, 65289, 20855, 20307, 30340, 12395, 12399, 12371, 12398, 37096, 20998, 12434, 12371, 12358, 12375, 12390, 12415, 12394, 12356, 65311>>],
    \* →）今回の場合は
    [category |-> "generalization",
     suffix |-> <<8594, 65289, 20170, 22238, 12398, 22580, 21512, 12399>>],
    \* →）どうしたらうまくいくかな？
    [category |-> "interrogation_pressure",
     suffix |-> <<8594, 65289, 12393, 12358, 12375, 12383, 12425, 12358, 12414, 12367, 12356, 12367, 12363, 12394, 65311>>],
    \* →）あなたのことを信じてるよ
    [category |-> "passive_aggressive",
     suffix |-> <<8594, 65289, 12354, 12394, 12383, 12398, 12371, 12392, 12434, 20449, 12376, 12390, 12427, 12424>>]>>

\* the line terminators, which . does not match
LineTerminator == {10, 13, 8232, 8233}

\* the characters of t from position i on are in the sets, one by one
MatchSets(t, sets, i) ==
  /\ i + Len(sets) - 1 <= Len(t)
  /\ \A k \in 1..Len(sets) : t[i + k - 1] \in sets[k]

\* the last position of the run of characters . matches that starts at s,
\* s - 1 if there is none
RECURSIVE DotRunEnd(_, _)
DotRunEnd(t, s) ==
  IF s > Len(t) \/ t[s] \in LineTerminator THEN s - 1 ELSE DotRunEnd(t, s + 1)

NoMatch == [ok |-> FALSE, end |-> 0, from |-> 0, to |-> 0]

\* the match of the rule's expression that starts at position i: its last
\* position and the positions of what (.+) captured.  (.+) is greedy: of the
\* ends after which post matches it takes the last one; the optional
\* character is taken when it is there
RuleMatchAt(t, rule, i) ==
  IF ~MatchSets(t, rule.pre, i) THEN NoMatch
  ELSE IF ~rule.group
    THEN [ok |-> TRUE, end |-> i + Len(rule.pre) - 1, from |-> 0, to |-> 0]
  ELSE LET s == i + Len(rule.pre)
           ends == {e \in s..DotRunEnd(t, s) : MatchSets(t, rule.post, e + 1)}
       IN  IF ends = {} THEN NoMatch
           ELSE LET e == CHOOSE x \in ends : \A y \in ends : y <= x
                    last == e + Len(rule.post)
                IN  [ok |-> TRUE,
                     end |-> IF last < Len(t) /\ t[last + 1] \in rule.opt
                               THEN last + 1 ELSE last,
                     from |-> s, to |-> e]

\* what follows (.+) in the rule's expression occurs from position from on;
\* without it the expression matches nowhere
PostOccurs(t, rule, from) ==
  rule.post = <<>> \/ \E e \in from..Len(t) : MatchSets(t, rule.post, e)

\* improved.replace(rule.match, rule.replace) for the text from position
\* from on: every match, from the left, matches not overlapping
RECURSIVE ReplaceFrom(_, _, _)
ReplaceFrom(t, rule, from) ==
  LET starts == IF PostOccurs(t, rule, from)
                  THEN {i \in from..Len(t) : RuleMatchAt(t, rule, i).ok}
                  ELSE {}
  IN  IF starts = {} THEN SubSeq(t, from, Len(t))
      ELSE CHOOSE r \in
             {SubSeq(t, from, m.start - 1) \o rule.head
                \o (IF rule.useGroup THEN SubSeq(t, m.at.from, m.at.to) ELSE <<>>)
                \o rule.tail \o ReplaceFrom(t, rule, m.at.end + 1) :
              m \in {[start |-> i, at |-> RuleMatchAt(t, rule, i)] :
                      i \in {CHOOSE x \in starts : \A y \in starts : x <= y}}} : TRUE

RegexReplace(t, rule) == ReplaceFrom(t, rule, 1)

\* improved.replaceAll(keyword, replacement) for the text from position from on
RECURSIVE ReplaceAllFrom(_, _, _, _)
ReplaceAllFrom(t, keyword, replacement, from) ==
  LET starts == {i \in from..Len(t) : MatchAt(t, keyword, i)}
  IN  IF starts = {} THEN SubSeq(t, from, Len(t))
      ELSE LET i == CHOOSE x \in starts : \A y \in starts : x <= y
           IN  SubSeq(t, from, i - 1) \o replacement
                 \o ReplaceAllFrom(t, keyword, replacement, i + Len(keyword))

replaceAll(t, keyword, replacement) == ReplaceAllFrom(t, keyword, replacement, 1)

\* （ (U+FF08), the keyword and the template's suffix; the keyword itself for
\* a category without template
generatePsychologicalReplacement(keyword, category, mbti) ==
  LET hit == {k \in 1..Len(TEMPLATES) : TEMPLATES[k].category = category}
  IN  IF hit = {} THEN keyword
      ELSE <<65288>> \o keyword \o TEMPLATES[CHOOSE k \in hit : TRUE].suffix

\* ruleGroups of a finding's category
RuleGroups(cat) ==
  (IF cat \in {"command", "freedom_restrict", "command_soft"} THEN <<"command">> ELSE <<>>)
  \o (IF cat \in {"ideal_denial", "capability_deny"} THEN <<"denial">> ELSE <<>>)
  \o (IF cat = "comparison" THEN <<"comparison_transform">> ELSE <<>>)
  \o (IF cat = "generalization" THEN <<"assertion">> ELSE <<>>)

\* TRANSFORM_RULES[groupName] || []
TransformRules(groupName) ==
  LET hit == {g \in 1..Len(TRANSFORM_RULES) : TRANSFORM_RULES[g].name = groupName}
  IN  IF hit = {} THEN <<>> ELSE TRANSFORM_RULES[CHOOSE g \in hit : TRUE].rules

\* the rules of the groups, in the order the two nested loops try them
RECURSIVE RulesOf(_)
RulesOf(groups) ==
  IF groups = <<>> THEN <<>> ELSE TransformRules(Head(groups)) \o RulesOf(Tail(groups))

\* a loop that goes on with the next rules after a rule has changed the text
RECURSIVE RuleLoopNoBreak(_, _, _)
RuleLoopNoBreak(improved, rules, k) ==
  IF k > Len(rules) THEN [text |-> improved, transformed |-> FALSE]
  ELSE CHOOSE r \in
         {[text |-> p.next.text,
           transformed |-> p.next.transformed \/ p.after # improved] :
          p \in {[after |-> after, next |-> RuleLoopNoBreak(after, rules, k + 1)] :
                  after \in {RegexReplace(improved, rules[k])}}} : TRUE

\* the two loops over the rules, from rule k on: the first rule that changes
\* the text ends them
RECURSIVE RuleLoop(_, _, _)
RuleLoop(improved, rules, k) ==
  IF k > Len(rules) THEN [text |-> improved, transformed |-> FALSE]
  ELSE CHOOSE r \in
         {IF after # improved THEN [text |-> after, transformed |-> TRUE]
                              ELSE RuleLoop(improved, rules, k + 1) :
          after \in {RegexReplace(improved, rules[k])}} : TRUE

\* one iteration of for (const item of found): the text after it, with what
\* the iteration did
improveStep(improved, item, targetMbti) ==
  CHOOSE r \in
    {IF loop.transformed
       THEN [keyword |-> item.keyword, category |-> item.category,
             before |-> improved, after |-> loop.text,
             transformed |-> TRUE, fallback |-> FALSE]
     ELSE IF Includes(loop.text, item.keyword)
       THEN [keyword |-> item.keyword, category |-> item.category,
             before |-> improved,
             after |-> replaceAll(loop.text, item.keyword,
                         generatePsychologicalReplacement(item.keyword, item.category,
                                                          targetMbti)),
             transformed |-> FALSE, fallback |-> TRUE]
     ELSE [keyword |-> item.keyword, category |-> item.category,
           before |-> improved, after |-> loop.text,
           transformed |-> FALSE, fallback |-> FALSE] :
     loop \in {RuleLoop(improved, RulesOf(RuleGroups(item.category)), 1)}} : TRUE

\* the loop over found from finding k on; steps are the iterations done
RECURSIVE Rewrite(_, _, _, _, _)
Rewrite(found, k, improved, steps, targetMbti) ==
  IF k > Len(found) THEN steps
  ELSE CHOOSE r \in
         {Rewrite(found, k + 1, step.after, Append(steps, step), targetMbti) :
          step \in {improveStep(improved, found[k], targetMbti)}} : TRUE

\* for (const rule of TRANSFORM_RULES.assertion), from rule k on
RECURSIVE AssertionPass(_, _)
AssertionPass(improved, k) ==
  IF k > Len(TransformRules("assertion")) THEN improved
  ELSE CHOOSE r \in
         {AssertionPass(after, k + 1) :
          after \in {RegexReplace(improved, TransformRules("assertion")[k])}} : TRUE

\* analyzeLocal from line 431 on, acc being what the two phases detected.
\* Besides the four fields the function returns, the record keeps the
\* function's locals found, directInsultCount, hasUltraSevere,
\* toneCorrection and pressureCorrection, and in rewrites what each
\* iteration of the loop over found did to the improved text
analyzeLocalResult(text, targetMbti, normalized, acc) ==
  LET toneCorrection == ToneCorrection(text, normalized)
      pressureCorrection == PressureCorrection(normalized, acc.categoryMbtiDamage)
      score == Score(acc, toneCorrection, pressureCorrection)
  IN  CHOOSE r \in
        {[score |-> score,
          scoreReason |-> scoreReason(acc, targetMbti, score,
                                      toneCorrection, pressureCorrection,
                                      ToneReasons(text, normalized),
                                      PressureReasons(normalized, acc.categoryMbtiDamage)),
          ngWords |-> CleanFound(acc.found),
          improved |-> AssertionPass(IF steps = <<>> THEN text
                                                     ELSE steps[Len(steps)].after, 1),
          found |-> acc.found,
          directInsultCount |-> acc.directInsultCount,
          hasUltraSevere |-> acc.hasUltraSevere,
          toneCorrection |-> toneCorrection,
          pressureCorrection |-> pressureCorrection,
          rewrites |-> steps] :
         steps \in {Rewrite(acc.found, 1, text, <<>>, targetMbti)}} : TRUE

analyzeLocal(text, targetMbti) ==
  LET normalized == normalizeText(text)
  IN  CHOOSE r \in {analyzeLocalResult(text, targetMbti, normalized, acc) :
                      acc \in {Detect(normalized, targetMbti)}} : TRUE

(***************************************************************************)
(* Inputs of the model: a text is the concatenation of at most MaxFrags    *)
(* fragments, or of at most MaxInsults insult phrases.                     *)
(***************************************************************************)
\* バカ 馬鹿 死ね / って言われた / 現実を見ろ 気にしすぎ / しろ / ！ and a space
FRAGMENTS ==
  <<<<12496, 12459>>, <<39340, 40575>>, <<27515, 12397>>,
    <<12387, 12390, 35328, 12431, 12428, 12383>>,
    <<29694, 23455, 12434, 35211, 12429>>, <<27671, 12395, 12375, 12377, 12366>>,
    <<12375, 12429>>, <<65281>>, <<32>>>>

\* a personality code that is none of the 16
\* "ABCD"
INVALID_MBTI == <<65, 66, 67, 68>>

\* result before any call
NoResult == [score |-> -1]

VARIABLES
  text,        \* the input text, a sequence of characters
  parts,       \* the pieces text was concatenated from, in order
  targetMbti,  \* the personality code of the call, <<>> before the call
  result,      \* what analyzeLocal returned, NoResult before the call
  prevScore,   \* score of the text before an insult phrase was added, or -1
  req,         \* the HTTP request given to the API, NoRequest before it arrives
  apiKey,      \* process.env.ANTHROPIC_API_KEY
  res,         \* the HTTP response of the API, NoResponse before it is sent
  calls,       \* calls made while handling req: analyzeLocal and the remote classifier
  deployed,    \* which webhook handler serves the bot
  lineToken,   \* whether process.env.LINE_CHANNEL_ACCESS_TOKEN is set
  userStates,  \* userId -> conversation state, Absent for a user without entry
  inflight,    \* webhook request -> what is left of the handler's invocation
  lastStep     \* what handling the last event did, NoStep before the first

coreVars == <<text, parts, targetMbti, result, prevScore>>

apiVars == <<req, apiKey, res, calls>>

botVars == <<deployed, lineToken, userStates, inflight, lastStep>>

vars == <<coreVars, apiVars, botVars>>

CoreInit ==
  /\ text = <<>>
  /\ parts = <<>>
  /\ targetMbti = <<>>
  /\ result = NoResult
  /\ prevScore = -1

\* analyzeLocal has been called
Called == result # NoResult

\* a request has not arrived
NoRequest == [route |-> "none"]

\* a response has not been sent
NoResponse == [status |-> 0]

NoCalls == [core |-> 0, remote |-> 0, outcome |-> "none"]

\* the API is not in use
ApiIdle ==
  /\ req = NoRequest
  /\ apiKey = [set |-> FALSE]
  /\ res = NoResponse
  /\ calls = NoCalls

\* no event has been handled
NoStep == [branch |-> "none"]

\* the users of the bot
USERS == {"U1", "U2"}

\* userStates[userId] of a user without entry (undefined)
Absent == [step |-> "none"]

\* the webhook requests of a behaviour; their invocations of the handler
\* may run at the same time
REQUESTS == {1, 2}

\* a webhook request that has not arrived
NoInvocation == [status |-> "none", left |-> 0]

\* the bot is not in use
BotIdle ==
  /\ deployed = "none"
  /\ lineToken = FALSE
  /\ userStates = [u \in USERS |-> Absent]
  /\ inflight = [r \in REQUESTS |-> NoInvocation]
  /\ lastStep = NoStep

Init == CoreInit /\ ApiIdle /\ BotIdle

\* the positions <<group, phrase>> of the phrases of DIRECT_INSULTS
InsultPhrases ==
  UNION {{<<g, k>> : k \in 1..Len(DIRECT_INSULTS[g].patterns)} : g \in 1..Len(DIRECT_INSULTS)}

\* the phrase at position gk
InsultPhrase(gk) == DIRECT_INSULTS[gk[1]].patterns[gk[2]]

\* the positions of バカ, 馬鹿, アホ and クズ: two phrases of one group and
\* one phrase each of two more groups, none of them ultra-severe
SAMPLE_INSULTS == {<<1, 2>>, <<1, 3>>, <<2, 1>>, <<5, 1>>}

\* the caller extends the text it is going to submit by fragment f
AppendFragment(f) ==
  /\ result = NoResult
  /\ Len(parts) < MaxFrags
  /\ \A k \in 1..Len(parts) : parts[k].kind = "fragment"
  /\ text' = text \o FRAGMENTS[f]
  /\ parts' = Append(parts, [kind |-> "fragment", at |-> f])
  /\ UNCHANGED <<targetMbti, result, prevScore, apiVars, botVars>>

\* the caller extends a text of insult phrases by the insult phrase at gk
AppendInsult(gk) ==
  /\ result = NoResult
  /\ Len(parts) < MaxInsults
  /\ \A k \in 1..Len(parts) : parts[k].kind = "insult"
  /\ text' = text \o InsultPhrase(gk)
  /\ parts' = Append(parts, [kind |-> "insult", at |-> gk])
  /\ UNCHANGED <<targetMbti, result, prevScore, apiVars, botVars>>

\* a call analyzeLocal(text, m)
AnalyzeLocal(m) ==
  /\ result = NoResult
  /\ targetMbti' = m
  /\ result' = analyzeLocal(text, m)
  /\ UNCHANGED <<text, parts, prevScore, apiVars, botVars>>

Next ==
  \/ \E f \in 1..Len(FRAGMENTS) : AppendFragment(f)
  \/ \E gk \in SAMPLE_INSULTS : AppendInsult(gk)
  \/ \E m \in MBTI_TYPES \cup {INVALID_MBTI} : AnalyzeLocal(m)

Spec == Init /\ [][Next]_vars

(***************************************************************************)
(* Adding an insult phrase to a text that has been scored.                 *)
(***************************************************************************)
\* "INFP"
INFP == <<73, 78, 70, 80>>

\* "ISTP"
ISTP == <<73, 83, 84, 80>>

\* the personality types texts are scored for when a phrase is added
SAMPLE_TYPES == {INFP, ISTP}

\* the scored text gets the insult phrase at gk added, at its end or at its
\* start, and analyzeLocal is called again for the same personality type
AddInsult(gk, atEnd) ==
  /\ Called
  /\ prevScore = -1
  /\ text' = IF atEnd THEN text \o InsultPhrase(gk) ELSE InsultPhrase(gk) \o text
  /\ parts' = IF atEnd THEN Append(parts, [kind |-> "insult", at |-> gk])
                       ELSE <<[kind |-> "insult", at |-> gk]>> \o parts
  /\ prevScore' = result.score
  /\ result' = analyzeLocal(text', targetMbti)
  /\ UNCHANGED <<targetMbti, apiVars, botVars>>

NextMono ==
  \/ \E f \in 1..Len(FRAGMENTS) : AppendFragment(f)
  \/ \E m \in SAMPLE_TYPES : AnalyzeLocal(m)
  \/ \E gk \in InsultPhrases : \E atEnd \in BOOLEAN : AddInsult(gk, atEnd)

SpecMono == Init /\ [][NextMono]_vars

(***************************************************************************)
(* Texts that start with an insult phrase, with or without a quotation     *)
(* suffix after it.                                                        *)
(***************************************************************************)
\* the text starts with the insult phrase at gk
StartWithInsult(gk) ==
  /\ result = NoResult
  /\ parts = <<>>
  /\ text' = InsultPhrase(gk)
  /\ parts' = <<[kind |-> "insult", at |-> gk]>>
  /\ UNCHANGED <<targetMbti, result, prevScore, apiVars, botVars>>

\* fragment f follows the insult phrase
AppendFiller(f) ==
  /\ result = NoResult
  /\ Len(parts) = 1
  /\ parts[1].kind = "insult"
  /\ text' = text \o FRAGMENTS[f]
  /\ parts' = Append(parts, [kind |-> "fragment", at |-> f])
  /\ UNCHANGED <<targetMbti, result, prevScore, apiVars, botVars>>

\* quotation suffix q ends the text
AppendQuote(q) ==
  /\ result = NoResult
  /\ Len(parts) \in 1..2
  /\ parts[1].kind = "insult"
  /\ parts[Len(parts)].kind # "quote"
  /\ text' = text \o QUOTE_PATTERNS[q]
  /\ parts' = Append(parts, [kind |-> "quote", at |-> q])
  /\ UNCHANGED <<targetMbti, result, prevScore, apiVars, botVars>>

NextQuote ==
  \/ \E gk \in InsultPhrases : StartWithInsult(gk)
  \/ \E f \in 1..Len(FRAGMENTS) : AppendFiller(f)
  \/ \E q \in 1..Len(QUOTE_PATTERNS) : AppendQuote(q)
  \/ \E m \in SAMPLE_TYPES : AnalyzeLocal(m)

SpecQuote == Init /\ [][NextQuote]_vars

(***************************************************************************)
(* The request/response API: the serverless function /api/analyze and the  *)
(* route POST /analyze of the development server.                          *)
(*                                                                         *)
(* A value of the JSON body is [type |-> "undefined"] when the key is      *)
(* missing, [type |-> "number"] for a number other than 0, or              *)
(* [type |-> "string", val |-> characters].                                *)
(***************************************************************************)
Undefined == [type |-> "undefined"]

Str(chars) == [type |-> "string", val |-> chars]

\* JavaScript's !v
Falsy(v) == v.type = "undefined" \/ (v.type = "string" /\ v.val = <<>>)

\* the text as it is, no letter changed
KeepCase(s) == s

\* String.prototype.toUpperCase on the letters a-z and their full-width forms
ToUpperCase(s) ==
  [i \in 1..Len(s) |-> IF s[i] \in (97..122) \cup (65345..65370) THEN s[i] - 32 ELSE s[i]]

\* a test of the length alone, /^.{4}$/.test(s)
MbtiPatternLengthOnly(s) == Len(s) = 4

\* /^[EI][SN][TF][JP]$/.test(s)
MbtiPattern(s) == s \in MBTI_TYPES

\* /^[EI][SN][TF][JP]$/i.test(s)
MbtiPatternIgnoreCase(s) ==
  /\ Len(s) = 4
  /\ \A i \in 1..4 : s[i] < 128
  /\ ToUpperCase(s) \in MBTI_TYPES

\* the values of "text" in request bodies: missing, a number, "", blanks,
\* バカ, and 現実を見ろ between blanks
TEXT_INPUTS ==
  {Undefined, [type |-> "number"], Str(<<>>), Str(<<32, 12288>>), Str(<<12496, 12459>>),
   Str(<<32, 29694, 23455, 12434, 35211, 12429, 32>>)}

\* the values of "targetMbti"/"mbti" in request bodies: missing, a number,
\* "", "INFP", "istp", "ABCD", "INFPX"
MBTI_INPUTS ==
  {Undefined, [type |-> "number"], Str(<<>>), Str(INFP), Str(<<105, 115, 116, 112>>),
   Str(INVALID_MBTI), Str(<<73, 78, 70, 80, 88>>)}

METHODS == {"POST", "OPTIONS", "GET"}

ROUTES == {"/api/analyze", "/analyze"}

\* ANTHROPIC_API_KEY: not set, "", "sk-xxx", "sk-live"
API_KEYS ==
  {[set |-> FALSE], [set |-> TRUE, val |-> <<>>],
   [set |-> TRUE, val |-> <<115, 107, 45, 120, 120, 120>>],
   [set |-> TRUE, val |-> <<115, 107, 45, 108, 105, 118, 101>>]}

\* what the call of the remote classifier can come to: a reply with a JSON
\* object in it, a status that is not OK, a reply without a JSON object, an
\* exception (fetch rejects, the reply or the matched text does not parse)
REMOTE_OUTCOMES == {"json", "not_ok", "no_json", "throws"}

\* apiKey && !apiKey.includes("xxx")
useAI(key) == key.set /\ key.val # <<>> /\ ~Includes(key.val, <<120, 120, 120>>)

\* a response and the calls that were made for it
Answer(status, body, core, remote, outcome) ==
  [res |-> [status |-> status, body |-> body],
   calls |-> [core |-> core, remote |-> remote, outcome |-> outcome]]

ErrorBody == [source |-> "error"]

\* handleClaudeAPI with the local analysis in place of its error replies
handleClaudeAPIFallback(t, m, outcome) ==
  IF outcome = "json"
    THEN Answer(200, [source |-> "remote"], 0, 1, outcome)
    ELSE Answer(200, [source |-> "local", result |-> analyzeLocal(t, m)], 1, 1, outcome)

\* handleClaudeAPI(req, res, text, targetMbti, apiKey), the remote call
\* coming to outcome
handleClaudeAPI(t, m, outcome) ==
  CASE outcome = "not_ok" -> Answer(502, ErrorBody, 0, 1, outcome)
    [] outcome = "no_json" -> Answer(502, ErrorBody, 0, 1, outcome)
    [] outcome = "throws" -> Answer(500, ErrorBody, 0, 1, outcome)
    [] OTHER -> Answer(200, [source |-> "remote"], 0, 1, outcome)

\* the serverless function of /api/analyze on request r
analyzeHandlerAnswer(r, key, outcome) ==
  CASE r.method = "OPTIONS" -> Answer(204, ErrorBody, 0, 0, "none")
    [] r.method # "POST" -> Answer(405, ErrorBody, 0, 0, "none")
    [] OTHER ->
       IF Falsy(r.text) \/ r.text.type # "string" \/ Trim(r.text.val) = <<>>
         THEN Answer(400, ErrorBody, 0, 0, "none")
       ELSE IF Falsy(r.mbti) \/ r.mbti.type # "string" \/ ~MbtiPatternIgnoreCase(r.mbti.val)
         THEN Answer(400, ErrorBody, 0, 0, "none")
       ELSE IF useAI(key)
         THEN handleClaudeAPI(Trim(r.text.val), ToUpperCase(r.mbti.val), outcome)
       ELSE Answer(200, [source |-> "local",
                         result |-> analyzeLocal(Trim(r.text.val), ToUpperCase(r.mbti.val))],
                   1, 0, "none")

\* the development server on a request to /analyze: the route is taken by
\* POST only, OPTIONS is the preflight, other methods look for a file.
\* (mbti || "INFP").toUpperCase() throws for a number: no response is sent
postAnalyzeAnswer(r) ==
  CASE r.method = "OPTIONS" -> Answer(204, ErrorBody, 0, 0, "none")
    [] r.method # "POST" -> Answer(404, ErrorBody, 0, 0, "none")
    [] OTHER ->
       IF Falsy(r.text) \/ r.text.type # "string" \/ Trim(r.text.val) = <<>>
         THEN Answer(400, ErrorBody, 0, 0, "none")
       ELSE IF r.mbti.type = "number"
         THEN [res |-> [status |-> -1, body |-> [source |-> "TypeError"]],
               calls |-> [core |-> 0, remote |-> 0, outcome |-> "none"]]
       ELSE LET m == ToUpperCase(IF Falsy(r.mbti) THEN INFP ELSE r.mbti.val)
            IN  IF ~MbtiPattern(m)
                  THEN Answer(400, ErrorBody, 0, 0, "none")
                  ELSE Answer(200, [source |-> "local",
                                    result |-> analyzeLocal(Trim(r.text.val), m)],
                              1, 0, "none")

\* a request arrives
Receive(route, method, t, m) ==
  /\ req = NoRequest
  /\ req' = [route |-> route, method |-> method, text |-> t, mbti |-> m]
  /\ UNCHANGED <<apiKey, res, calls, coreVars, botVars>>

\* /api/analyze answers the request
analyzeHandler(outcome) ==
  /\ req # NoRequest
  /\ req.route = "/api/analyze"
  /\ res = NoResponse
  /\ LET a == analyzeHandlerAnswer(req, apiKey, outcome)
     IN  res' = a.res /\ calls' = a.calls
  /\ UNCHANGED <<req, apiKey, coreVars, botVars>>

\* the development server answers the request to /analyze
postAnalyze ==
  /\ req # NoRequest
  /\ req.route = "/analyze"
  /\ res = NoResponse
  /\ LET a == postAnalyzeAnswer(req)
     IN  res' = a.res /\ calls' = a.calls
  /\ UNCHANGED <<req, apiKey, coreVars, botVars>>

InitApi ==
  /\ CoreInit
  /\ BotIdle
  /\ req = NoRequest
  /\ apiKey \in API_KEYS
  /\ res = NoResponse
  /\ calls = NoCalls

NextApi ==
  \/ \E route \in ROUTES : \E method \in METHODS :
       \E t \in TEXT_INPUTS : \E m \in MBTI_INPUTS : Receive(route, method, t, m)
  \/ \E outcome \in REMOTE_OUTCOMES : analyzeHandler(outcome)
  \/ postAnalyze

SpecApi == InitApi /\ [][NextApi]_vars

(***************************************************************************)
(* The conversational bot: the webhook handler with the conversation       *)
(* store userStates, in its two versions (src/api/webhook.js and           *)
(* src/unnamed/part_001).                                                  *)
(*                                                                         *)
(* An invocation of the handler runs its loop over the events of the       *)
(* request.  One iteration reads and writes userStates without a pause     *)
(* and then awaits replyToLine, so an iteration is one step and            *)
(* iterations of different invocations interleave.  The events of a        *)
(* request are chosen when the iteration reads them.                       *)
(***************************************************************************)
HANDLERS == {"webhook.js", "part_001"}

\* "診断"
SHINDAN == <<35386, 26029>>

\* "診断を始める"
SHINDAN_START == <<35386, 26029, 12434, 22987, 12417, 12427>>

\* the texts users send: 診断, 診断を始める, "infp", "ABCD", バカ between
\* blanks, and an ideographic space
MESSAGES ==
  {SHINDAN, SHINDAN_START, <<105, 110, 102, 112>>, INVALID_MBTI,
   <<32, 12496, 12459, 32>>, <<12288>>}

\* the events of webhook requests: text messages of the users, a text
\* message without source.userId, and a message that is no text
EVENTS ==
  {[type |-> "text", userId |-> u, text |-> m] : u \in USERS, m \in MESSAGES}
    \cup {[type |-> "text", userId |-> "", text |-> SHINDAN],
          [type |-> "sticker", userId |-> "U1", text |-> <<>>]}

\* what the fetch of replyToLine can come to
REPLY_OUTCOMES == {"ok", "not_ok", "throws"}

\* the handler of part_001 without its second trigger
TriggersOnlyShort(version) == {SHINDAN}

\* the texts that start the flow
Triggers(version) ==
  IF version = "part_001" THEN {SHINDAN, SHINDAN_START} ELSE {SHINDAN}

\* scoreEmoji(score) of webhook.js, by the name of the sign
scoreEmoji(score) ==
  IF score >= 80 THEN "check"
  ELSE IF score >= 60 THEN "warning"
  ELSE IF score >= 40 THEN "diamond"
  ELSE "siren"

\* riskLabel(risk) of part_001, by the colour of the sign
riskLabel(risk) ==
  IF risk >= 60 THEN "red"
  ELSE IF risk >= 30 THEN "orange"
  ELSE IF risk >= 10 THEN "yellow"
  ELSE "green"

\* formatResult(result): the values the text of the reply is made of
formatResult(version, r) ==
  IF version = "part_001"
    THEN [risk |-> 100 - r.score, label |-> riskLabel(100 - r.score),
          reasons |-> r.scoreReason, improved |-> r.improved]
    ELSE [emoji |-> scoreEmoji(r.score), score |-> r.score,
          detected |-> [k \in 1..Len(r.ngWords) |->
                          <<r.ngWords[k].keyword, r.ngWords[k].reason>>],
          reasons |-> r.scoreReason, improved |-> r.improved]

\* replyToLine(replyToken, messages): nothing is sent without the token,
\* a status that is not OK is logged, an exception of fetch is not caught
replyToLine(token, message, outcome) ==
  [message |-> message, delivery |-> IF token THEN outcome ELSE "no_token"]

\* delete userStates[userId] without its effect
keepUserState(states, userId) == states

\* a reset of the whole store in place of the delete
clearUserStates(states, userId) == [u \in USERS |-> Absent]

\* delete userStates[userId]
deleteUserState(states, userId) == [states EXCEPT ![userId] = Absent]

\* a read of the user's state that gives what the handler of the user's
\* previous event had read, as a read before an await would
readStaleUserState(states, userId) ==
  IF lastStep # NoStep /\ lastStep.branch # "skipped" /\ lastStep.event.userId = userId
    THEN lastStep.before
    ELSE states[userId]

\* const state = userStates[userId]
readUserState(states, userId) == states[userId]

\* one iteration of the handler's loop on event ev, up to its replyToLine
EventStep(version, states, ev) ==
  IF ev.type # "text" \/ ev.userId = ""
    THEN [states |-> states, branch |-> "skipped", calls |-> <<>>, message |-> "none"]
  ELSE
    LET userId == ev.userId
        userText == Trim(ev.text)
        state == readUserState(states, userId)
    IN  IF userText \in Triggers(version)
          THEN [states |-> [states EXCEPT ![userId] = [step |-> "waiting_mbti"]],
                branch |-> "start", calls |-> <<>>, message |-> "ask_mbti"]
        ELSE IF state.step = "waiting_mbti"
          THEN LET mbti == ToUpperCase(userText)
               IN  IF ~MbtiPattern(mbti)
                     THEN [states |-> states, branch |-> "invalid_mbti", calls |-> <<>>,
                           message |-> "ask_valid_mbti"]
                     ELSE [states |-> [states EXCEPT ![userId] =
                                         [step |-> "waiting_text", mbti |-> mbti]],
                           branch |-> "mbti", calls |-> <<>>, message |-> "ask_text"]
        ELSE IF state.step = "waiting_text"
          THEN [states |-> deleteUserState(states, userId),
                branch |-> "analyze",
                calls |-> <<[text |-> userText, mbti |-> state.mbti]>>,
                message |-> formatResult(version, analyzeLocal(userText, state.mbti))]
        ELSE [states |-> states, branch |-> "guide", calls |-> <<>>, message |-> "guide"]

\* the handler is invoked on a request with n events: 405 unless POST
handlerStart(r, method, n) ==
  /\ deployed \in HANDLERS
  /\ inflight[r] = NoInvocation
  /\ \A q \in REQUESTS : q < r => inflight[q] # NoInvocation
  /\ inflight' = [inflight EXCEPT ![r] =
                    IF method = "POST" THEN [status |-> "running", left |-> n]
                                       ELSE [status |-> "405", left |-> 0]]
  /\ UNCHANGED <<deployed, lineToken, userStates, lastStep, coreVars, apiVars>>

\* invocation r handles its next event, ev, and its replyToLine comes to
\* outcome; an exception ends the invocation
handleEvent(r, ev, outcome) ==
  /\ inflight[r].status = "running"
  /\ inflight[r].left > 0
  /\ \E step \in {EventStep(deployed, userStates, ev)} :
       \E reply \in {IF step.branch = "skipped"
                       THEN [message |-> "none", delivery |-> "none"]
                       ELSE replyToLine(lineToken, step.message, outcome)} :
         /\ outcome # "ok" => reply.delivery = outcome
         /\ userStates' = step.states
         /\ lastStep' = [event |-> ev, branch |-> step.branch,
                         before |-> IF step.branch = "skipped" THEN Absent
                                    ELSE readUserState(userStates, ev.userId),
                         calls |-> step.calls, reply |-> reply]
         /\ inflight' = [inflight EXCEPT ![r] =
                           IF reply.delivery = "throws"
                             THEN [status |-> "thrown", left |-> @.left - 1]
                             ELSE [status |-> "running", left |-> @.left - 1]]
  /\ UNCHANGED <<deployed, lineToken, coreVars, apiVars>>

\* invocation r has handled its events and answers 200
handlerEnd(r) ==
  /\ inflight[r].status = "running"
  /\ inflight[r].left = 0
  /\ inflight' = [inflight EXCEPT ![r] = [status |-> "200", left |-> 0]]
  /\ UNCHANGED <<deployed, lineToken, userStates, lastStep, coreVars, apiVars>>

InitBot ==
  /\ CoreInit
  /\ ApiIdle
  /\ deployed \in HANDLERS
  /\ lineToken \in BOOLEAN
  /\ userStates = [u \in USERS |-> Absent]
  /\ inflight = [r \in REQUESTS |-> NoInvocation]
  /\ lastStep = NoStep

NextBot ==
  \/ \E r \in REQUESTS : \E method \in {"POST", "GET"} : \E n \in 0..MaxBatch :
       handlerStart(r, method, n)
  \/ \E r \in REQUESTS : \E ev \in EVENTS : \E outcome \in REPLY_OUTCOMES :
       handleEvent(r, ev, outcome)
  \/ \E r \in REQUESTS : handlerEnd(r)

SpecBot == InitBot /\ [][NextBot]_vars

(***************************************************************************)
(* Texts made of phrases that meet the dictionaries in different ways:     *)
(* a phrase listed by two entries, an imperative a transform rule          *)
(* rewrites, a text without any match, an insult written in half-width     *)
(* katakana, a plain insult, a generalization, a denial, a space followed  *)
(* by a full-width capital, an exclamation mark, and an imperative that    *)
(* only a transform rule knows.                                            *)
(***************************************************************************)
\* the most phrases a text is made of
MaxPhrases == 2

\* ちゃんとして / ちゃんとしろ / ありがとう / ｶｽ / バカ / 絶対 / ダメだ /
\* space and Ａ / ！ / 黙れ
PHRASES ==
  <<<<12385, 12419, 12435, 12392, 12375, 12390>>, <<12385, 12419, 12435, 12392, 12375, 12429>>, <<12354, 12426, 12364, 12392, 12358>>, <<65398, 65405>>, <<12496, 12459>>,
    <<32118, 23550>>, <<12480, 12513, 12384>>, <<32, 65313>>, <<65281>>,
    <<40665, 12428>>>>

\* the caller extends the text it is going to submit by phrase p
AppendPhrase(p) ==
  /\ result = NoResult
  /\ Len(parts) < MaxPhrases
  /\ text' = text \o PHRASES[p]
  /\ parts' = Append(parts, [kind |-> "phrase", at |-> p])
  /\ UNCHANGED <<targetMbti, result, prevScore, apiVars, botVars>>

NextText ==
  \/ \E p \in 1..Len(PHRASES) : AppendPhrase(p)
  \/ \E m \in SAMPLE_TYPES : AnalyzeLocal(m)

SpecText == Init /\ [][NextText]_vars

(***************************************************************************)
(* Texts that are one phrase of a dictionary and nothing else: every       *)
(* phrase of every entry of CATEGORY_PATTERNS and of every group of        *)
(* DIRECT_INSULTS, as the dictionary writes it.                            *)
(***************************************************************************)
\* the positions <<category, entry, phrase>> of the phrases of
\* CATEGORY_PATTERNS
CategoryPhrases ==
  UNION {UNION {{<<c, e, k>> : k \in 1..Len(CATEGORY_PATTERNS[c].entries[e].patterns)} :
                  e \in 1..Len(CATEGORY_PATTERNS[c].entries)} :
           c \in 1..Len(CATEGORY_PATTERNS)}

\* the phrase at position cek
CategoryPhrase(cek) == CATEGORY_PATTERNS[cek[1]].entries[cek[2]].patterns[cek[3]]

\* the caller submits the insult phrase at gk as the whole text
TakeInsultPhrase(gk) ==
  /\ result = NoResult
  /\ parts = <<>>
  /\ text' = InsultPhrase(gk)
  /\ parts' = <<[kind |-> "insult_phrase", at |-> gk]>>
  /\ UNCHANGED <<targetMbti, result, prevScore, apiVars, botVars>>

\* the caller submits the category phrase at cek as the whole text
TakeCategoryPhrase(cek) ==
  /\ result = NoResult
  /\ parts = <<>>
  /\ text' = CategoryPhrase(cek)
  /\ parts' = <<[kind |-> "category_phrase", at |-> cek]>>
  /\ UNCHANGED <<targetMbti, result, prevScore, apiVars, botVars>>

\* a call analyzeLocal(text, m) on a phrase submitted
AnalyzePhrase(m) ==
  /\ parts # <<>>
  /\ AnalyzeLocal(m)

NextDict ==
  \/ \E gk \in InsultPhrases : TakeInsultPhrase(gk)
  \/ \E cek \in CategoryPhrases : TakeCategoryPhrase(cek)
  \/ \E m \in SAMPLE_TYPES : AnalyzePhrase(m)

SpecDict == Init /\ [][NextDict]_vars

(***************************************************************************)
(* Properties of analyzeLocal.                                             *)
(***************************************************************************)
Abs(x) == IF x < 0 THEN -x ELSE x

\* the phrases of an insult group, as a set
GroupPhrases(g) == {DIRECT_INSULTS[g].patterns[k] : k \in 1..Len(DIRECT_INSULTS[g].patterns)}

UltraGroups == {g \in 1..Len(DIRECT_INSULTS) : DIRECT_INSULTS[g].ultraSevere}

PlainGroups == {g \in 1..Len(DIRECT_INSULTS) : ~DIRECT_INSULTS[g].ultraSevere}

\* a quotation suffix starts in t at position i or later
QuoteFrom(t, i) ==
  \E q \in 1..Len(QUOTE_PATTERNS) : \E j \in i..Len(t) : MatchAt(t, QUOTE_PATTERNS[q], j)

\* the phrase the detector looks at for group g (the first listed phrase of
\* the group that occurs in t) exists and no quotation suffix starts at or
\* after its first occurrence
UnquotedMatch(t, g) ==
  LET ps == DIRECT_INSULTS[g].patterns
  IN  \E k \in 1..Len(ps) :
        /\ Includes(t, ps[k])
        /\ \A j \in 1..(k - 1) : ~Includes(t, ps[j])
        /\ ~QuoteFrom(t, IndexOf(t, ps[k]))

\* C1: for every valid personality code and every non-empty text the score
\* returned by analyzeLocal is an integer between 0 and 100
ScoreInRange ==
  (Called /\ targetMbti \in MBTI_TYPES /\ text # <<>>) => result.score \in 0..100

\* C1 witness: two insults, whose deduction exceeds 100, are scored 0
ScoreInRangeWitness ==
  /\ Called /\ targetMbti \in MBTI_TYPES
  /\ result.directInsultCount = 2
  /\ PowDeduction(200) + result.toneCorrection + result.pressureCorrection > 100
  /\ result.score = 0

\* C2 as stated: every text that contains an ultra-severe phrase scores at
\* most 5, for every personality type
UltraSevereAlwaysCapped ==
  (Called /\ targetMbti \in MBTI_TYPES
     /\ \E g \in UltraGroups : \E p \in GroupPhrases(g) : Includes(text, p))
    => result.score <= 5

\* C2 amended: every text in which the ultra-severe phrase the detector looks
\* at is not followed by a quotation suffix scores at most 5
UltraSevereUnquotedCapped ==
  (Called /\ \E g \in UltraGroups : UnquotedMatch(normalizeText(text), g))
    => result.score <= 5

\* C2 witness: an ultra-severe phrase after a quotation suffix is capped
UltraSevereWitness ==
  /\ Called /\ targetMbti \in MBTI_TYPES
  /\ \E g \in UltraGroups : UnquotedMatch(normalizeText(text), g)
  /\ QuoteFrom(normalizeText(text), 1)
  /\ result.score <= 5

\* the text consists of non-ultra insult phrases and nothing else
OnlyPlainInsults ==
  /\ parts # <<>>
  /\ \A k \in 1..Len(parts) : parts[k].kind = "insult" /\ parts[k].at[1] \in PlainGroups

\* the groups the phrases of the text belong to
PartGroups == {parts[k].at[1] : k \in 1..Len(parts)}

\* the phrases of the text differ from one another
DistinctParts == \A j, k \in 1..Len(parts) : j # k => parts[j].at # parts[k].at

\* C3 as stated: for every personality type, one non-ultra insult phrase and
\* nothing else scores at most 30, two (different) phrases score at most 10,
\* three or more score 0
InsultPhraseCountCap ==
  (Called /\ targetMbti \in MBTI_TYPES /\ OnlyPlainInsults /\ DistinctParts) =>
    /\ Len(parts) = 1 => result.score <= 30
    /\ Len(parts) = 2 => result.score <= 10
    /\ Len(parts) >= 3 => result.score <= 0

\* C3 amended: a text of non-ultra insult phrases and nothing else scores at
\* most 30 when the phrases belong to one insult group, at most 10 when they
\* belong to two groups, and 0 when they belong to three or more
InsultGroupCountCap ==
  (Called /\ OnlyPlainInsults) =>
    result.score <= Max(0, 30 - (Cardinality(PartGroups) - 1) * 20)

\* C3 witness: three phrases of which two belong to one group are scored as
\* two insults
InsultGroupCountWitness ==
  /\ Called /\ OnlyPlainInsults /\ targetMbti \in MBTI_TYPES
  /\ Len(parts) = 3 /\ DistinctParts /\ Cardinality(PartGroups) = 2
  /\ result.directInsultCount = 2
  /\ result.score <= 10

\* the scores of the text under construction for the 16 personality types
ScoresOfText == {analyzeLocal(text, m).score : m \in MBTI_TYPES}

\* C4: for a fixed text the scores of any two personality types differ by at
\* most 20
BoundedDivergence ==
  ~Called => \A x, y \in ScoresOfText : Abs(x - y) <= 20

\* C4 witness: a text whose scores differ by exactly 20 between two types
BoundedDivergenceWitness ==
  ~Called /\ \E x, y \in ScoresOfText : x - y = 20

\* the failure the entry point is specified to raise
InvalidInput == [error |-> "InvalidInput"]

\* C7: called with empty or white-space-only text, or with a personality code
\* that is none of the 16, the core fails with InvalidInput
InvalidInputRejected ==
  (Called /\ (Trim(text) = <<>> \/ targetMbti \notin MBTI_TYPES))
    => result = InvalidInput

\* C5: adding a phrase of the insult catalog to a text, at its end or at its
\* start, never gives a score greater than the score of the text without it,
\* for the same personality type
InsultNeverRaisesScore ==
  prevScore # -1 => result.score <= prevScore

\* the normalized text
Normalized == normalizeText(text)

\* the findings of the insult detector
InsultFindings ==
  {k \in 1..Len(result.ngWords) : result.found[k].category = "direct_insult"}

\* C6: an insult phrase whose first occurrence in the normalized text has a
\* quotation suffix somewhere after it gives no insult finding, and neither
\* counts as an insult nor sets the ultra-severe flag (the count is the number
\* of insult findings, the flag is set only by a finding of an ultra-severe
\* group); the insult phrase alone gives exactly one insult finding, for a
\* phrase of its group that occurs in it
QuoteSuppression ==
  Called =>
    /\ \A gk \in InsultPhrases :
         LET idx == IndexOf(Normalized, InsultPhrase(gk))
         IN  (idx > 0 /\ QuoteFrom(Normalized, idx)) =>
               \A k \in InsultFindings : result.found[k].keyword # InsultPhrase(gk)
    /\ result.directInsultCount = Cardinality(InsultFindings)
    /\ result.hasUltraSevere =
         \E k \in InsultFindings : \E g \in UltraGroups :
           result.found[k].keyword \in GroupPhrases(g)
    /\ (Len(parts) = 1 /\ parts[1].kind = "insult") =>
         /\ Cardinality(InsultFindings) = 1
         /\ \A k \in InsultFindings :
              /\ result.found[k].keyword \in GroupPhrases(parts[1].at[1])
              /\ Includes(text, result.found[k].keyword)

\* an insult phrase followed by a filler and a quotation suffix has been
\* analysed and gave no insult finding
QuoteSuppressionWitness ==
  /\ Called
  /\ Len(parts) = 3
  /\ parts[3].kind = "quote"
  /\ InsultFindings = {}
  /\ result.score = 100

\* an insult phrase alone has been analysed and gave its one finding
QuoteAloneWitness ==
  /\ Called
  /\ Len(parts) = 1
  /\ parts[1].kind = "insult"
  /\ Cardinality(InsultFindings) = 1

\* the request has been answered (or its handling has thrown)
Answered == res # NoResponse

\* the text of the request is no string with a character other than blanks
InvalidText(v) == v.type # "string" \/ Trim(v.val) = <<>>

\* the personality type of the request is missing or is no string that
\* matches one of the 16 codes, in either case
InvalidMbti(v) == v.type # "string" \/ ToUpperCase(v.val) \notin MBTI_TYPES

\* C8: a POST request whose text is missing, empty or blank, or whose
\* personality type is missing or none of the 16 codes, is answered with a
\* 4xx status and calls neither analyzeLocal nor the remote classifier;
\* every other POST request reaches exactly one of the two
ApiRejectsInvalidRequests ==
  (Answered /\ req.method = "POST") =>
    IF InvalidText(req.text) \/ InvalidMbti(req.mbti)
      THEN res.status \in 400..499 /\ calls.core = 0 /\ calls.remote = 0
      ELSE calls.core + calls.remote = 1

\* a valid POST request to /api/analyze has been answered
ValidApiRequest ==
  /\ Answered
  /\ req.route = "/api/analyze"
  /\ req.method = "POST"
  /\ ~InvalidText(req.text)
  /\ ~InvalidMbti(req.mbti)

\* the local result for the request
LocalAnswer ==
  [source |-> "local",
   result |-> analyzeLocal(Trim(req.text.val), ToUpperCase(req.mbti.val))]

\* a credential is configured: the key is set, not empty and no placeholder
\* with "xxx" in it
Configured == apiKey.set /\ apiKey.val # <<>> /\ ~Includes(apiKey.val, <<120, 120, 120>>)

HandledAwaitingText == lastStep # NoStep /\ lastStep.before.step = "waiting_text"

\* the text of the last event as the handler reads it
LastText == Trim(lastStep.event.text)

\* the reply that carries the formatted result of the last event's text for
\* the pending type
ResultMessage == formatResult(deployed, analyzeLocal(LastText, lastStep.before.mbti))

\* the text is a start trigger of the deployed handler
IsTrigger(t) == t = SHINDAN \/ (deployed = "part_001" /\ t = SHINDAN_START)

\* the last event, of a user awaiting text, was analysed once with the
\* pending type, replied to with the formatted result, and the user's entry
\* was removed
AnalysedAndReset ==
  /\ lastStep.calls = <<[text |-> LastText, mbti |-> lastStep.before.mbti]>>
  /\ lastStep.reply.message = ResultMessage
  /\ userStates[lastStep.event.userId] = Absent

\* the steps a user's state takes in a diagnosis without restart
StepOrder ==
  {<<"none", "waiting_mbti">>, <<"waiting_mbti", "waiting_text">>, <<"waiting_text", "none">>}

\* the last event, if it changed the step of its user, changed it by one of
\* the steps in order
LastStepIn(order) ==
  (lastStep # NoStep /\ lastStep.branch # "skipped") =>
    LET from == lastStep.before.step
        to == userStates[lastStep.event.userId].step
    IN  from # to => <<from, to>> \in order

\* C9 as stated: the next text message of a user awaiting text is analysed
\* once with that text and the pending type, one reply carries the formatted
\* result, the user's entry is removed; the steps of a user go idle,
\* waiting_mbti, waiting_text, idle
ConversationalFlow ==
  /\ HandledAwaitingText => AnalysedAndReset
  /\ LastStepIn(StepOrder)

\* C9, amended: the next text message t of a user awaiting text with
\* pending type M, unless t trimmed is a start trigger of the handler, is
\* analysed once with (t trimmed, M), M one of the 16 codes, one reply with
\* the formatted result is handed to replyToLine (which sends it only with
\* the access token set), and the user's entry is removed; a start trigger
\* is not analysed and puts the user back to waiting_mbti.  The steps of a
\* user go idle, waiting_mbti, waiting_text, idle, and from waiting_text
\* back to waiting_mbti on a start trigger.
ConversationalFlowWithRestart ==
  /\ HandledAwaitingText =>
       IF IsTrigger(LastText)
         THEN /\ lastStep.calls = <<>>
              /\ userStates[lastStep.event.userId] = [step |-> "waiting_mbti"]
         ELSE /\ AnalysedAndReset
              /\ lastStep.before.mbti \in MBTI_TYPES
              /\ (lastStep.reply.delivery = "no_token") = ~lineToken
  /\ LastStepIn(StepOrder \cup {<<"waiting_text", "waiting_mbti">>})

\* a text between blanks was analysed for a user awaiting text and the
\* reply was sent
ConversationalFlowWitness ==
  /\ HandledAwaitingText
  /\ lastStep.branch = "analyze"
  /\ LastText # lastStep.event.text
  /\ lastStep.reply.delivery = "ok"
  /\ userStates[lastStep.event.userId] = Absent

\* C11: a reply that fails, by a status that is not OK or by an exception,
\* is not thrown to the webhook request: no invocation of the handler ends
\* by an exception, and an invocation that has ended has handled all its
\* events and answered 200 (405 for a request that is not POST)
ReplyFailureIsolated ==
  \A r \in REQUESTS :
    /\ inflight[r].status # "thrown"
    /\ inflight[r].status \in {"200", "405"} => inflight[r].left = 0

\* the user's state that handling event ev in state st leaves, by the steps
\* of the flow
Successor(st, ev) ==
  LET t == Trim(ev.text)
  IN  IF IsTrigger(t) THEN [step |-> "waiting_mbti"]
      ELSE IF st.step = "waiting_mbti"
        THEN IF ToUpperCase(t) \in MBTI_TYPES
               THEN [step |-> "waiting_text", mbti |-> ToUpperCase(t)]
               ELSE st
      ELSE Absent

\* the step is an iteration of the handler's loop: an invocation has one
\* event less to handle
EventHandled == \E r \in REQUESTS : inflight'[r].left < inflight[r].left

\* C12: with invocations of the handler interleaved at their awaits, every
\* change of a user's stored state is the step from the value stored just
\* before it, for the event handled; and a text is analysed only for a user
\* whose stored state is waiting_text, with the pending type stored, which
\* the same step removes, so a pending text is analysed at most once
AtomicSteps ==
  [][/\ \A u \in USERS : userStates'[u] # userStates[u] => lastStep'.event.userId = u
     /\ (EventHandled /\ lastStep'.branch # "skipped") =>
          LET u == lastStep'.event.userId
          IN  /\ userStates'[u] = Successor(userStates[u], lastStep'.event)
              /\ lastStep'.calls # <<>> =>
                   /\ userStates[u].step = "waiting_text"
                   /\ lastStep'.calls = <<[text |-> Trim(lastStep'.event.text),
                                           mbti |-> userStates[u].mbti]>>
                   /\ userStates'[u] = Absent]_vars

\* a text was analysed by one invocation while the other invocation, which
\* has handled an event before, is still to handle one
AtomicStepsWitness ==
  /\ lastStep.branch = "analyze"
  /\ inflight[1].status = "running" /\ inflight[1].left = 1
  /\ inflight[2].status = "running" /\ inflight[2].left = 0

(***************************************************************************)
(* Properties of the findings, the reasons and the rewritten text.         *)
(***************************************************************************)
\* the entries <<category, entry>> of CATEGORY_PATTERNS whose first phrase
\* found in the normalized text is the given phrase
EntriesMatching(normalized, pattern) ==
  {ce \in UNION {{<<c, e>> : e \in 1..Len(CATEGORY_PATTERNS[c].entries)} :
                  c \in 1..Len(CATEGORY_PATTERNS)} :
     LET ps == CATEGORY_PATTERNS[ce[1]].entries[ce[2]].patterns
         k == FirstMatch(ps, normalized)
     IN  k > 0 /\ ps[k] = pattern}

\* C13: no two findings of one analysis have the same phrase (keyword),
\* whether they come from the insult phase or from the category phase
UniqueFindings ==
  Called => \A j, k \in 1..Len(result.ngWords) :
              j # k => result.ngWords[j].keyword # result.ngWords[k].keyword

\* C13 witness: the text is a phrase that two entries list (ちゃんとして, an
\* entry of command_soft and one of vague_criticism) and it is reported once
UniqueFindingsWitness ==
  /\ Called
  /\ text = PHRASES[1]
  /\ Cardinality(EntriesMatching(normalizeText(text), PHRASES[1])) = 2
  /\ Len(result.ngWords) = 1
  /\ result.ngWords[1].keyword = PHRASES[1]

\* the analysis detected nothing and corrected nothing
NothingDetected ==
  /\ result.found = <<>>
  /\ result.toneCorrection = 0
  /\ result.pressureCorrection = 0

\* C14: an analysis without finding whose tone and pressure corrections are
\* both 0 scores 100 and its reasons are exactly the two affirmative strings
\* in order; in every other case neither affirmative string is a reason
AffirmativeReasons ==
  Called =>
    IF NothingDetected
      THEN /\ result.score = 100
           /\ Len(result.scoreReason) = 2
           /\ result.scoreReason[1] = Reason(519, "", targetMbti)
           /\ result.scoreReason[2] = Reason(520, "", <<>>)
      ELSE \A k \in 1..Len(result.scoreReason) : result.scoreReason[k].line \notin {519, 520}

\* C14 witness: a text of five characters that matches nothing (ありがとう)
\* gets the two affirmative reasons
AffirmativeReasonsWitness ==
  /\ Called
  /\ text = PHRASES[3]
  /\ NothingDetected
  /\ result.score = 100
  /\ result.scoreReason = SafeReasons(targetMbti)

\* C15: normalizing a normalized text changes nothing:
\* normalizeText(normalizeText(x)) = normalizeText(x) for every text x
NormalizeIdempotent ==
  normalizeText(normalizeText(text)) = normalizeText(text)

\* C15 witness: the analysed text ｶｽ, space, Ａ has all of half-width
\* katakana, whitespace and a full-width capital, and normalizes to カスa
NormalizeIdempotentWitness ==
  /\ Called
  /\ text = PHRASES[4] \o PHRASES[8]
  /\ normalizeText(text) = <<12459, 12473, 97>>
  /\ normalizeText(<<12459, 12473, 97>>) = <<12459, 12473, 97>>

\* C16 as stated: the phrase of every finding occurs in the original text
PhrasesFromOriginalText ==
  Called => \A k \in 1..Len(result.ngWords) : Includes(text, result.ngWords[k].keyword)

\* the phrases of the findings of an analysis, in order
Keywords(r) == [k \in 1..Len(r.ngWords) |-> r.ngWords[k].keyword]

\* every finding of the analysis is a direct insult
OnlyInsultFindings ==
  \A k \in 1..Len(result.found) : result.found[k].category = "direct_insult"

\* C17: for a text whose findings are all direct insults the score and the
\* findings' phrases are the same for all 16 personality types: they equal,
\* for each type, those the text gets for INFP
InsultsIgnorePersonality ==
  (Called /\ targetMbti \in MBTI_TYPES /\ OnlyInsultFindings) =>
    \A r \in {analyzeLocal(text, INFP)} :
      /\ result.score = r.score
      /\ Keywords(result) = Keywords(r)

\* C17 witness: two insults of two groups, analysed for ISTP, whose
\* sensitivities differ from those of INFP
InsultsIgnorePersonalityWitness ==
  /\ Called
  /\ targetMbti = ISTP
  /\ result.directInsultCount = 2
  /\ Len(result.found) = 2
  /\ Multipliers(ISTP) # Multipliers(INFP)

\* the structural rules tried for a finding of the category, in order
RulesFor(category) == RulesOf(RuleGroups(category))

\* the rules among them that change the text
Changing(category, t) ==
  {j \in 1..Len(RulesFor(category)) : RegexReplace(t, RulesFor(category)[j]) # t}

\* C18: the rewriter handles the findings in detection order, each on the
\* text the one before left; for a finding it applies one structural rule,
\* the first rule of its category's groups that changes the text, or none;
\* it replaces the phrase by the category's template exactly when no
\* structural rule changed the text and the phrase occurs in the current
\* text; otherwise, as for a category without rule group whose phrase is
\* absent, the text stays as it is
RewritePerFinding ==
  Called =>
    /\ Len(result.rewrites) = Len(result.found)
    /\ \A k \in 1..Len(result.rewrites) :
         \A step \in {result.rewrites[k]} :
           \A changing \in {Changing(step.category, step.before)} :
             /\ step.keyword = result.found[k].keyword
             /\ step.category = result.found[k].category
             /\ step.before = IF k = 1 THEN text ELSE result.rewrites[k - 1].after
             /\ step.transformed <=> changing # {}
             /\ step.transformed =>
                  step.after =
                    RegexReplace(step.before,
                                 RulesFor(step.category)[CHOOSE j \in changing :
                                                           \A i \in changing : j <= i])
             /\ step.fallback <=> (changing = {} /\ Includes(step.before, step.keyword))
             /\ step.fallback =>
                  step.after =
                    replaceAll(step.before, step.keyword,
                               generatePsychologicalReplacement(step.keyword, step.category,
                                                                targetMbti))
             /\ (~step.transformed /\ ~step.fallback) => step.after = step.before

\* C18 witness: 黙れちゃんとしろ, where the rule /(.+)[しすき]ろ/ rewrites the
\* text for the finding ちゃんとしろ and the later rule /黙れ/, which matches
\* too, is not applied
RewritePerFindingWitness ==
  /\ Called
  /\ text = PHRASES[10] \o PHRASES[2]
  /\ Len(result.rewrites) = 1
  /\ result.rewrites[1].transformed
  /\ ~result.rewrites[1].fallback
  /\ Includes(result.rewrites[1].after, PHRASES[10])
  /\ Cardinality(Changing("command_soft", text)) = 2

\* a finding rewritten by its category's template
FallbackWitness ==
  /\ Called
  /\ \E k \in 1..Len(result.rewrites) :
       result.rewrites[k].fallback /\ RulesFor(result.rewrites[k].category) # <<>>

\* a finding of a category without rule group whose phrase is not in the text
UntouchedWitness ==
  /\ Called
  /\ \E k \in 1..Len(result.rewrites) :
       /\ RulesFor(result.rewrites[k].category) = <<>>
       /\ ~Includes(result.rewrites[k].before, result.rewrites[k].keyword)
       /\ result.rewrites[k].after = result.rewrites[k].before

\* the last event was handled as a text message of a user
HandledText == lastStep # NoStep /\ lastStep.branch # "skipped"

\* C19: a start trigger (診断, and 診断を始める for the handler of part_001)
\* puts its sender to waiting_mbti whatever the sender's step was, a pending
\* type is dropped, and the message is not analysed
TriggerRestarts ==
  (HandledText /\ IsTrigger(LastText)) =>
    /\ lastStep.branch = "start"
    /\ userStates[lastStep.event.userId] = [step |-> "waiting_mbti"]
    /\ lastStep.calls = <<>>
    /\ lastStep.reply.message = "ask_mbti"

\* C19 witness: 診断を始める sent by a user who awaits the text with a pending
\* type restarts the flow
TriggerRestartsWitness ==
  /\ HandledText
  /\ deployed = "part_001"
  /\ LastText = SHINDAN_START
  /\ lastStep.before.step = "waiting_text"
  /\ lastStep.before.mbti \in MBTI_TYPES
  /\ userStates[lastStep.event.userId] = [step |-> "waiting_mbti"]

\* the trigger restarts the flow of a user without entry and of a user
\* awaiting the type
TriggerFromOtherStepsWitness ==
  /\ HandledText /\ IsTrigger(LastText)
  /\ lastStep.before.step = "waiting_mbti"
  /\ \E u \in USERS : userStates[u] = Absent

\* text a is the code b written in upper-case or lower-case letters
SameLetters(a, b) ==
  /\ Len(a) = Len(b)
  /\ \A i \in 1..Len(a) : a[i] = b[i] \/ a[i] = b[i] + 32

\* the codes the text spells, in whatever letter case
CodesOf(t) == {m \in MBTI_TYPES : SameLetters(t, m)}

\* C20: for a user awaiting the type, a message that trimmed spells none of
\* the 16 codes leaves the user's state as it was, is answered by a prompt
\* for the type (the start prompt if the message is a start trigger, the
\* request for a valid type otherwise) and is not analysed; a message that
\* spells a code, in any letter case, puts the user to waiting_text with the
\* code in upper case
TypeStepFrame ==
  (HandledText /\ lastStep.before.step = "waiting_mbti") =>
    /\ lastStep.calls = <<>>
    /\ IF CodesOf(LastText) = {}
         THEN /\ userStates[lastStep.event.userId] = lastStep.before
              /\ lastStep.reply.message =
                   IF IsTrigger(LastText) THEN "ask_mbti" ELSE "ask_valid_mbti"
         ELSE /\ userStates[lastStep.event.userId] \in
                   {[step |-> "waiting_text", mbti |-> m] : m \in CodesOf(LastText)}
              /\ lastStep.reply.message = "ask_text"

\* C20 witness: ABCD sent by a user awaiting the type leaves the user there
\* and is answered by the request for a valid type
TypeStepFrameWitness ==
  /\ HandledText
  /\ lastStep.before = [step |-> "waiting_mbti"]
  /\ LastText = INVALID_MBTI
  /\ lastStep.branch = "invalid_mbti"
  /\ userStates[lastStep.event.userId] = [step |-> "waiting_mbti"]
  /\ lastStep.reply.message = "ask_valid_mbti"

\* infp sent by a user awaiting the type is taken as INFP
LowerCaseTypeWitness ==
  /\ HandledText
  /\ lastStep.before.step = "waiting_mbti"
  /\ LastText = <<105, 110, 102, 112>>
  /\ userStates[lastStep.event.userId] = [step |-> "waiting_text", mbti |-> INFP]

(***************************************************************************)
(* Properties of the conversation store.                                   *)
(***************************************************************************)
\* one of the 16 codes, letter by letter: E or I, S or N, T or F, J or P
ValidCode(m) ==
  /\ Len(m) = 4
  /\ m[1] \in {69, 73}
  /\ m[2] \in {83, 78}
  /\ m[3] \in {84, 70}
  /\ m[4] \in {74, 80}

\* the value stored for a user is no entry, { step: "waiting_mbti" }, or
\* { step: "waiting_text", mbti } with one of the 16 codes
WellFormedState(st) ==
  \/ st = Absent
  \/ st = [step |-> "waiting_mbti"]
  \/ /\ DOMAIN st = {"step", "mbti"}
     /\ st.step = "waiting_text"
     /\ ValidCode(st.mbti)

\* C21: after any sequence of events, every stored state of a user has the
\* step waiting_mbti or waiting_text, every state with the step waiting_text
\* carries one of the 16 upper-case codes, and the bot has called
\* analyzeLocal only with one of the 16 codes
StoreWellFormed ==
  /\ \A u \in USERS : WellFormedState(userStates[u])
  /\ lastStep # NoStep =>
       \A k \in 1..Len(lastStep.calls) : ValidCode(lastStep.calls[k].mbti)

\* a text was analysed for a user with the code that came from the message
\* "infp", while the other user is asked for a code
StoreWellFormedWitness ==
  /\ lastStep # NoStep
  /\ lastStep.branch = "analyze"
  /\ Len(lastStep.calls) = 1
  /\ lastStep.before = [step |-> "waiting_text", mbti |-> <<73, 78, 70, 80>>]
  /\ \E u \in USERS : userStates[u] = [step |-> "waiting_mbti"]

\* the event handled by the step is a text message of a user
TextEventOf(ev, u) == ev.type = "text" /\ ev.userId = u

\* C22: a user's stored state changes only in a step that handles a text
\* message of that very user, so handling an event of user A leaves the
\* state of every other user B as it is; an event that is not a text
\* message or has no user identifier changes no state, calls no analysis
\* and sends no reply; and a request that is not a POST is answered 405
\* without any event handled, any state changed or any reply sent
StoreFrame ==
  [][/\ \A u \in USERS :
          userStates'[u] # userStates[u] =>
            EventHandled /\ TextEventOf(lastStep'.event, u)
     /\ (EventHandled /\ ~(\E u \in USERS : TextEventOf(lastStep'.event, u))) =>
          /\ userStates' = userStates
          /\ lastStep'.calls = <<>>
          /\ lastStep'.reply = [message |-> "none", delivery |-> "none"]
     /\ ~EventHandled => userStates' = userStates /\ lastStep' = lastStep
     /\ \A r \in REQUESTS :
          /\ inflight[r].status = "405" => inflight'[r] = inflight[r]
          /\ inflight'[r].status = "405" => inflight'[r].left = 0]_vars

\* the code of user U1 was stored while user U2 has a pending code
StoreFrameWitness ==
  /\ lastStep # NoStep
  /\ lastStep.branch = "mbti"
  /\ lastStep.event.userId = "U1"
  /\ userStates["U1"].step = "waiting_text"
  /\ userStates["U2"].step = "waiting_text"

\* an event that is no text message was passed over while a user has a
\* stored state
SkippedEventWitness ==
  /\ lastStep # NoStep
  /\ lastStep.branch = "skipped"
  /\ lastStep.event.type = "sticker"
  /\ \E u \in USERS : userStates[u] # Absent

\* a text message without user identifier was passed over while a user has
\* a stored state
NoUserEventWitness ==
  /\ lastStep # NoStep
  /\ lastStep.branch = "skipped"
  /\ lastStep.event.userId = ""
  /\ \E u \in USERS : userStates[u] # Absent

\* a request that is not a POST was answered 405 while a user has a stored
\* state
NotPostWitness ==
  /\ \E r \in REQUESTS : inflight[r].status = "405"
  /\ \E u \in USERS : userStates[u] # Absent

(***************************************************************************)
(* Further properties of the reasons, the rewritten text and the           *)
(* dictionaries.                                                           *)
(***************************************************************************)
\* the exclamation marks of the text, ! and its full-width form
ExclamationMarks == {i \in 1..Len(text) : text[i] \in {33, 65281}}

\* C23 as stated: every result of analyzeLocal has at least one reason
ReasonsNonEmpty ==
  Called => result.scoreReason # <<>>

\* C23: the result of analyzeLocal has no reason exactly when nothing was
\* found, the pressure correction is 0 and the tone correction is the +1 of
\* one or two exclamation marks, which pushes no reason; the score is then
\* 99, above every band of the summary sentence; every other result has at
\* least one reason
ReasonsEmptyOnlyForLoneExclamation ==
  Called =>
    /\ result.scoreReason = <<>> <=>
         /\ result.found = <<>>
         /\ result.toneCorrection = 1
         /\ result.pressureCorrection = 0
    /\ result.scoreReason = <<>> =>
         /\ result.score = 99
         /\ Cardinality(ExclamationMarks) \in {1, 2}

\* ありがとう！ was analysed: nothing found, one exclamation mark, score 99
\* and no reason
LoneExclamationWitness ==
  /\ Called
  /\ text = PHRASES[3] \o PHRASES[9]
  /\ result.found = <<>>
  /\ result.toneCorrection = 1
  /\ result.score = 99
  /\ result.scoreReason = <<>>

\* the analysis of the improved text of the result, for the same type
Reanalysed == analyzeLocal(result.improved, targetMbti)

\* C24 as stated: the improved text never scores below the text it was
\* made from, for the same personality type
ImprovedNeverRiskier ==
  Called => Reanalysed.score >= result.score

\* ちゃんとして黙れ was analysed for INFP: score 76; the command rule turned
\* 黙れ into 少し落ち着いて話そう, in which the dictionary finds 落ち着いて
\* and 落ち着い, and the improved text scores 45
ImprovedRiskierWitness ==
  /\ Called
  /\ text = PHRASES[1] \o PHRASES[10]
  /\ targetMbti = INFP
  /\ result.score = 76
  /\ result.improved = PHRASES[1] \o <<23569, 12375, 33853, 12385, 30528, 12356, 12390, 35441, 12381, 12358>>
  /\ Reanalysed.score = 45
  /\ Len(Reanalysed.ngWords) = 3

\* the entry of the dictionary the submitted phrase belongs to
PhraseEntry ==
  IF parts[1].kind = "insult_phrase"
    THEN DIRECT_INSULTS[parts[1].at[1]]
    ELSE LET cat == CATEGORY_PATTERNS[parts[1].at[1]]
         IN  [category |-> cat.category,
              reason |-> cat.entries[parts[1].at[2]].reason,
              patterns |-> cat.entries[parts[1].at[2]].patterns]

\* finding f was pushed for the entry: its category, its reason and one of
\* its phrases
FindingOf(f, entry) ==
  /\ f.category = entry.category
  /\ f.reason = entry.reason
  /\ \E k \in 1..Len(entry.patterns) : f.keyword = entry.patterns[k]

\* the analysis of the submitted phrase has a finding for the phrase's entry
PhraseDetected ==
  \E k \in 1..Len(result.found) : FindingOf(result.found[k], PhraseEntry)

\* C25 as stated: the text that is one phrase of the dictionary and nothing
\* else yields a finding for the phrase's entry, for every phrase of every
\* category entry and of every insult group
EveryPhraseDetectable ==
  (Called /\ parts # <<>> /\ parts[1].kind \in {"insult_phrase", "category_phrase"}) =>
    PhraseDetected

\* the phrases of the dictionary that, submitted alone, yield no finding for
\* their entry: NOと言え and KY, which are written in upper case while the
\* normalized text is lower case, and ちゃんとして of vague_criticism, whose
\* finding the same phrase of command_soft has taken
UndetectedPhrases == {<<2, 4, 2>>, <<6, 19, 2>>, <<13, 1, 1>>}

\* every phrase of the dictionary submitted alone is detected for its entry,
\* but for the three of UndetectedPhrases, none of which is
PhrasesDetectedButThree ==
  (Called /\ parts # <<>> /\ parts[1].kind \in {"insult_phrase", "category_phrase"}) =>
    (PhraseDetected <=>
       ~(parts[1].kind = "category_phrase" /\ parts[1].at \in UndetectedPhrases))

\* KY was analysed: the normalized text is ky, and nothing is found
UpperCasePhraseWitness ==
  /\ Called
  /\ parts # <<>>
  /\ parts[1].kind = "category_phrase"
  /\ text = <<75, 89>>
  /\ normalizeText(text) = <<107, 121>>
  /\ result.found = <<>>
  /\ result.score = 97

====
